---- MODULE Spec2Model ----
(***************************************************************************)
(* DataPlug: the click-counter route (src/app/api/click/route.ts and its   *)
(* variant with read-after-write verification), the directory search of    *)
(* HomeClient.tsx, the admin account listing, the server and client pings, *)
(* the admin statistics, the stream test page, the duplicate report, the   *)
(* stream preview and the add-stream route, each as a state machine over   *)
(* the external store, sockets and timers they use.                        *)
(***************************************************************************)
EXTENDS Integers, Sequences, FiniteSets, TLC

\* ------------------------------------------------------------------ bounds
\* Number of click requests of one behaviour (each runs POST once); the
\* behaviours of SpecClickMany hold one more.
NumCalls == 2
\* Largest counter value a stream starts with.
MaxInit == 1
\* Longest search term typed into the search box.
MaxTermLen == 2
\* Records the catalog holds beyond the 50-record candidate window.
Overflow == 2
\* Accounts the identity provider holds.
MaxAccounts == 2
\* How many ms late a timer fires at most.
MaxLate == 2
\* Rows of the streams table the admin page fetches.
MaxRows == 3
\* Streams the duplicate report and the stream test page read.
MaxStreams == 3

\* A JavaScript null / undefined.
Null == "<null>"

\* ==================================================================
\* Usage counter: POST /api/click
\* ==================================================================
VARIABLES
    variant,    \* which POST is deployed: "primary" (route.ts) or "verified"
    active,     \* how many requests arrive in this behaviour
    credsOk,    \* the environment holds the store URL and key
    store,      \* streams table: id -> [clicks_node, clicks_python]
    store0,     \* the table when the behaviour starts (history)
    pc,         \* per call: "idle", "fetch", "update", "verify", "done"
    req,        \* per call: the request body [id, type]
    stream,     \* per call: the row read by the first select
    newCount,   \* per call: the value it writes
    status,     \* per call: the HTTP status of its response (0: none yet)
    success,    \* per call: the success field of its response
    applied,    \* per call: the store applied its update (history)
    changed,    \* per call: its update changed the stored counter (history)
    snap,       \* per call: the table when it started with no other call in flight (history)
    alone,      \* per call: no other call was in flight while it ran (history)
    fault       \* how the latest update or re-read of any call failed, if it did (history)

clickVars == <<variant, active, credsOk, store, store0, pc, req, stream, newCount,
               status, success, applied, changed, snap, alone, fault>>

VARIABLES
    catLen,     \* streams table: the number of rows
    catMarks,   \* streams table: the positions that hold a catHit row
    catHit,     \* streams table: the kind of row at the marked positions
    catFill,    \* streams table: the kind of row everywhere else
    sPc,        \* search(): "idle", "await" (a select is pending), "done"
    q,          \* the argument of the running or last search()
    branch,     \* which select is pending: "empty" (limit 6) or "filter" (limit 50)
    results,    \* React state results
    loading,    \* React state loading
    outcome,    \* how the last select ended: "none", "data", "error", "throw"
    raised      \* search() rejected: an error reached its caller

searchVars == <<catLen, catMarks, catHit, catFill, sPc, q, branch, results,
                loading, outcome, raised>>

VARIABLES
    serviceRoleKey, \* the environment holds SUPABASE_SERVICE_ROLE_KEY
    accounts,       \* auth.users of the identity provider
    aPc,            \* GET: "idle", "getUser", "listUsers", "done"
    authHeader,     \* the Authorization header of the request
    token,          \* authHeader.replace('Bearer ', '')
    resolved,       \* what auth.getUser(token) returned
    elevated,       \* this request created the service-role client
    aStatus,        \* the HTTP status of the response (0: none yet)
    aBody           \* the response body

adminVars == <<serviceRoleKey, accounts, aPc, authHeader, token, resolved,
               elevated, aStatus, aBody>>

VARIABLES
    gPc,        \* GET /api/ping: "idle", "fetch" (the fetch is pending), "done"
    gEndpoint,  \* the endpoint parameter of the request
    startTime,  \* Date.now() before the fetch
    gNow,       \* the clock of the server, in ms
    response,   \* what the awaited fetch gave: "none", "ok", "notok", "null"
    aborted,    \* the abort timer fired while the fetch was pending (history)
    gStatus,    \* the HTTP status of the response (0: none yet)
    gBody       \* the response body: [latency, error]

pingVars == <<gPc, gEndpoint, startTime, gNow, response, aborted, gStatus, gBody>>

VARIABLES
    user,       \* admin page: a user is signed in
    statRows,   \* streams table as select('id, name, clicks_node, clicks_python') returns it
    tPc,        \* fetchStreams(): "idle", "await" (the select is pending), "done"
    tOutcome,   \* how the last select ended: "none", "data", "null", "error", "throw"
    streams     \* React state streams of the admin page

statsVars == <<user, statRows, tPc, tOutcome, streams>>

VARIABLES
    probe,      \* the probe of the browser that runs: "none", "ping", "testStream"
    ws,         \* readyState of its socket: "none", "CONNECTING", "OPEN", "CLOSING", "CLOSED"
    opened,     \* the connection of the socket was established
    wsDue,      \* the close event of the socket: "none", "due" (error dispatched), "done"
    timer,      \* its timeout timer: "none", "pending", "fired", "cleared"
    wStart,     \* Date.now() when the probe started
    wNow,       \* the clock of the browser, in ms
    pinging,    \* React state pinging: '' or the id of a stream
    seen,       \* the value of pinging the callbacks of ping closed over
    latencies,  \* React state latencies[id] of the pinged stream
    wsResolved, \* the flag resolved of testStream
    result,     \* what testStream's promise resolved with: [status, latency, error]
    closeCalled,\* close() was called on the socket (history)
    reported,   \* the probe reported a result: setLatencies or resolve ran (history)
    firstEvent, \* the first event of testStream's socket and timer (history)
    other,      \* the ping of another stream, s2: "none", "connecting", "resolved", "closed"
    otherSeen,  \* the value of pinging the callbacks of that ping closed over
    nStreams,   \* streams.length of the test page
    testing,    \* React state testing of the test page
    completed,  \* React state completed
    testResults,\* React state results of the test page: per stream [stream, status, error]
    loop        \* testAllStreams(): "idle", "test" (awaits testStream), "delay"

\* The state of ping that a second ping shares, and the state of the test page.
otherVars == <<other, otherSeen>>
runVars == <<nStreams, testing, completed, testResults, loop>>
probeVars == <<probe, ws, opened, wsDue, timer, wStart, wNow, pinging, seen, latencies,
               wsResolved, result, closeCalled, reported, firstEvent, otherVars, runVars>>

VARIABLES
    dCreds,     \* the environment holds the store URL and the service-role key
    dRows,      \* streams table as select('id, name, endpoint, description') returns it
    dPc,        \* GET /api/check-duplicates: "idle", "await", "done"
    dStatus,    \* the HTTP status of the response (0: none yet)
    dBody       \* the response body

dupVars == <<dCreds, dRows, dPc, dStatus, dBody>>

VARIABLES
    previewing,     \* React state previewing[id] of the previewed stream
    previewMessage, \* React state previewMessages[id]: Null while there is none
    previewVisible, \* React state previewVisible[id]
    previewWs,      \* React state previewWs holds the socket of the stream
    vWs,            \* readyState of the preview's socket
    vOpened,        \* its connection was established
    vDue,           \* its close event: "none", "due" (error dispatched), "done"
    messageReceived,\* the flag messageReceived of preview
    timeoutId,      \* the 5-second timer: "none", "pending", "fired", "cleared"
    messageTimeoutId, \* the 3-second timer
    closeTimer,     \* the 100 ms timer set by the first message
    vNow            \* ms since the preview started

previewVars == <<previewing, previewMessage, previewVisible, previewWs, vWs, vOpened,
                 vDue, messageReceived, timeoutId, messageTimeoutId, closeTimer, vNow>>

VARIABLES
    regCreds,   \* add-stream: the environment holds the store URL and a key
    regParsed,  \* request.json() returned the body
    regBody,    \* the request body [name, endpoint, description, tags]
    regRecord,  \* the record the route hands to insert
    regTable,   \* the records the route has inserted
    regPc,      \* POST /api/add-stream: "idle", "await", "done"
    regStatus,  \* the HTTP status of the response (0: none yet)
    regSuccess  \* the success field of the response

addVars == <<regCreds, regParsed, regBody, regRecord, regTable, regPc, regStatus, regSuccess>>

VARIABLES
    earlierPending, \* the select of an earlier search() is still pending
    earlierQ        \* the argument of that search()

raceVars == <<earlierPending, earlierQ>>

\* What the actions of one component leave alone.
clickOthers == <<searchVars, adminVars, pingVars, statsVars, probeVars, dupVars, previewVars, addVars, raceVars>>
searchOthers == <<clickVars, adminVars, pingVars, statsVars, probeVars, dupVars, previewVars, addVars, raceVars>>
adminOthers == <<clickVars, searchVars, pingVars, statsVars, probeVars, dupVars, previewVars, addVars, raceVars>>
pingOthers == <<clickVars, searchVars, adminVars, statsVars, probeVars, dupVars, previewVars, addVars, raceVars>>
statsOthers == <<clickVars, searchVars, adminVars, pingVars, probeVars, dupVars, previewVars, addVars, raceVars>>
probeOthers == <<clickVars, searchVars, adminVars, pingVars, statsVars, dupVars, previewVars, addVars, raceVars>>
dupOthers == <<clickVars, searchVars, adminVars, pingVars, statsVars, probeVars, previewVars, addVars, raceVars>>
previewOthers == <<clickVars, searchVars, adminVars, pingVars, statsVars, probeVars, dupVars, addVars, raceVars>>
addOthers == <<clickVars, searchVars, adminVars, pingVars, statsVars, probeVars, dupVars, previewVars, raceVars>>
raceOthers == <<clickVars, adminVars, pingVars, statsVars, probeVars, dupVars, previewVars, addVars>>

Calls == 1..(NumCalls + 1)
StreamIds == {"s1", "s2"}
Columns == {"clicks_node", "clicks_python"}
\* Request fields. Requests name stream s1, an id no stream has, or no id
\* (undefined); s2 is a stream no request names. A type is one of the two
\* counters, the third bucket the UI sends, or the empty string.
ReqIds == {"s1", "nope", Null}
ReqTypes == {"node", "python", "vibe", ""}
NoRow == [clicks_node |-> 0, clicks_python |-> 0]

\* The column a recognised type increments.
ColumnOf(type) == IF type = "node" THEN "clicks_node" ELSE "clicks_python"

\* !x of JavaScript for a request field (a string or undefined), and the test
\* that lets the empty string pass.
Falsy_undefined(x) == x = Null
Falsy(x) == x \in {"", Null}

\* (x || 0) for a counter column; a NULL column reads as a negative number here.
OrZero(x) == IF x <= 0 THEN 0 ELSE x

\* newCount = (stream.clicks_X || 0) + 1, and the same with an off-by-one step.
NewCount_plus2(row, type) == OrZero(row[ColumnOf(type)]) + 2
NewCount(row, type) == OrZero(row[ColumnOf(type)]) + 1

\* The value .update({clicks_X: newCount}) stores, given the stored one, and
\* what a store-side increment (clicks_X = clicks_X + 1) would store instead.
Written_atomic(cur, nc) == cur + 1
Written(cur, nc) == nc

InFlight(p) == pc[p] \in {"fetch", "update", "verify"}

Respond(p, code, ok) ==
    /\ pc' = [pc EXCEPT ![p] = "done"]
    /\ status' = [status EXCEPT ![p] = code]
    /\ success' = [success EXCEPT ![p] = ok]

\* No call has arrived.
ClickIdle ==
    /\ store0 = store
    /\ pc = [p \in Calls |-> "idle"]
    /\ req = [p \in Calls |-> [id |-> Null, type |-> Null]]
    /\ stream = [p \in Calls |-> NoRow]
    /\ newCount = [p \in Calls |-> 0]
    /\ status = [p \in Calls |-> 0]
    /\ success = [p \in Calls |-> FALSE]
    /\ applied = [p \in Calls |-> FALSE]
    /\ changed = [p \in Calls |-> FALSE]
    /\ snap = [p \in Calls |-> store0]
    /\ alone = [p \in Calls |-> TRUE]
    /\ fault = "none"

\* Stream s1 starts with any counters up to MaxInit; s2, which no request
\* names, with counters that differ from each other.
ClickStores ==
    {[id \in StreamIds |->
        IF id = "s1" THEN row ELSE [clicks_node |-> MaxInit, clicks_python |-> 0]] :
     row \in [Columns -> 0..MaxInit]}

ClickInit ==
    /\ variant \in {"primary", "verified"}
    /\ credsOk \in BOOLEAN
    /\ store \in ClickStores
    /\ ClickIdle

\* The counter route at rest, for the behaviours of the other components.
ClickRest ==
    /\ variant = "primary"
    /\ active = 0
    /\ credsOk = TRUE
    /\ store = [id \in StreamIds |-> NoRow]
    /\ ClickIdle

\* Calls are interchangeable: call p arrives after call p-1 has arrived.
Arrives(p) == p <= active /\ pc[p] = "idle" /\ (p > 1 => pc[p - 1] # "idle")

\* POST up to its first await: body validation and the credentials check.
ClickStart(p) ==
    /\ Arrives(p)
    /\ \E id \in ReqIds, type \in ReqTypes :
        /\ req' = [req EXCEPT ![p] = [id |-> id, type |-> type]]
        /\ IF Falsy(id) \/ Falsy(type)
             THEN Respond(p, 400, FALSE)
             ELSE IF ~credsOk
               THEN Respond(p, 500, FALSE)
               ELSE /\ pc' = [pc EXCEPT ![p] = "fetch"]
                    /\ UNCHANGED <<status, success>>
    /\ snap' = [snap EXCEPT ![p] =
                   IF \A r \in Calls \ {p} : ~InFlight(r) THEN store ELSE store0]
    /\ alone' = [c \in Calls |->
                   IF c = p THEN \A r \in Calls \ {p} : ~InFlight(r)
                   ELSE IF InFlight(c) /\ pc'[p] = "fetch" THEN FALSE
                   ELSE alone[c]]
    /\ fault' = "none"
    /\ UNCHANGED <<variant, active, credsOk, store, store0, stream, newCount,
                   applied, changed>>
    /\ UNCHANGED clickOthers

\* The first select('clicks_node, clicks_python').eq('id', id).single() and the
\* code up to the next await: 404 on error or no row, 400 on an unknown type.
ClickFetch(p) ==
    /\ pc[p] = "fetch"
    /\ \E o \in {"row", "error", "empty", "throw"} :
        /\ o = "row" => req[p].id \in StreamIds
        /\ o = "empty" => req[p].id \notin StreamIds
        /\ fault' = "none"
        /\ CASE o = "throw" ->
                 /\ Respond(p, 500, FALSE)
                 /\ UNCHANGED <<stream, newCount>>
             [] o \in {"error", "empty"} ->
                 /\ Respond(p, 404, FALSE)
                 /\ UNCHANGED <<stream, newCount>>
             [] o = "row" ->
                 /\ stream' = [stream EXCEPT ![p] = store[req[p].id]]
                 /\ IF req[p].type \in {"node", "python"}
                      THEN /\ newCount' = [newCount EXCEPT ![p] =
                                             NewCount(store[req[p].id], req[p].type)]
                           /\ pc' = [pc EXCEPT ![p] = "update"]
                           /\ UNCHANGED <<status, success>>
                      ELSE /\ Respond(p, 400, FALSE)
                           /\ UNCHANGED newCount
    /\ UNCHANGED <<variant, active, credsOk, store, store0, req, applied, changed,
                   snap, alone>>
    /\ UNCHANGED clickOthers

\* .update({clicks_X: newCount}).eq('id', id).select() and the code after it.
\* The store either applies the write and returns the row, applies it and
\* returns no row, drops it without an error, returns an error, or the call throws.
ClickUpdate(p) ==
    /\ pc[p] = "update"
    /\ \E o \in {"rows", "zero_applied", "zero_dropped", "error", "throw"} :
        LET id == req[p].id
            col == ColumnOf(req[p].type)
            v == Written(store[id][col], newCount[p])
        IN  /\ fault' = IF o \in {"error", "throw"} THEN o ELSE "none"
            /\ IF o \in {"rows", "zero_applied"}
                 THEN /\ store' = [store EXCEPT ![id][col] = v]
                      /\ applied' = [applied EXCEPT ![p] = TRUE]
                      /\ changed' = [changed EXCEPT ![p] = (store[id][col] # v)]
                 ELSE UNCHANGED <<store, applied, changed>>
            /\ CASE o \in {"error", "throw"} -> Respond(p, 500, FALSE)
                 [] o = "rows" -> Respond(p, 200, TRUE)
                 [] OTHER ->
                     IF variant = "primary"
                       THEN Respond(p, 200, TRUE)
                       ELSE /\ pc' = [pc EXCEPT ![p] = "verify"]
                            /\ UNCHANGED <<status, success>>
    /\ UNCHANGED <<variant, active, credsOk, store0, req, stream, newCount, snap, alone>>
    /\ UNCHANGED clickOthers

\* The verification select of the variant: 200 when the re-read value is
\* newCount, else 403. ClickVerify_generic answers a failed verification as a
\* failed update is answered.
ClickVerify_generic(p) ==
    /\ pc[p] = "verify"
    /\ \E o \in {"row", "error", "throw"} :
        LET verifyData == IF o = "row" THEN store[req[p].id] ELSE NoRow
        IN  /\ fault' = IF o = "row" THEN "none" ELSE o
            /\ CASE o = "throw" -> Respond(p, 500, FALSE)
                 [] o = "row" /\ verifyData[ColumnOf(req[p].type)] = newCount[p] ->
                      Respond(p, 200, TRUE)
                 [] OTHER -> Respond(p, 500, FALSE)
    /\ UNCHANGED <<variant, active, credsOk, store, store0, req, stream, newCount,
                   applied, changed, snap, alone>>
    /\ UNCHANGED clickOthers
ClickVerify(p) ==
    /\ pc[p] = "verify"
    /\ \E o \in {"row", "error", "throw"} :
        LET verifyData == IF o = "row" THEN store[req[p].id] ELSE NoRow
        IN  /\ fault' = IF o = "row" THEN "none" ELSE o
            /\ CASE o = "throw" -> Respond(p, 500, FALSE)
                 [] o = "row" /\ verifyData[ColumnOf(req[p].type)] = newCount[p] ->
                      Respond(p, 200, TRUE)
                 [] OTHER -> Respond(p, 403, FALSE)
    /\ UNCHANGED <<variant, active, credsOk, store, store0, req, stream, newCount,
                   applied, changed, snap, alone>>
    /\ UNCHANGED clickOthers

ClickNext ==
    \E p \in Calls : ClickStart(p) \/ ClickFetch(p) \/ ClickUpdate(p) \/ ClickVerify(p)
\* ==================================================================
\* Directory query: search() of HomeClient.tsx
\* ==================================================================
\* .limit(6) of the empty-term select, .limit(50) of the candidate select,
\* .slice(0, 6) of the filtered candidates.
EmptyLimit == 6
CandidateLimit == 50
ResultLimit == 6


\* Strings are sequences of characters.
Chars == {"a", "A", "b", " "}
IsSpace(c) == c \in {" ", "\t", "\n"}
LowerChar(c) == IF c = "A" THEN "a" ELSE IF c = "B" THEN "b" ELSE c

Min(a, b) == IF a <= b THEN a ELSE b
MinOf(S) == CHOOSE x \in S : \A y \in S : x <= y
MaxOf(S) == CHOOSE x \in S : \A y \in S : x >= y

\* String.prototype.toLowerCase
ToLowerCase(str) == [i \in 1..Len(str) |-> LowerChar(str[i])]

\* String.prototype.trim
Trim(str) ==
    LET keep == {i \in 1..Len(str) : ~IsSpace(str[i])}
    IN  IF keep = {} THEN <<>> ELSE SubSeq(str, MinOf(keep), MaxOf(keep))

\* String.prototype.includes
Includes(hay, needle) ==
    \E i \in 1..(Len(hay) - Len(needle) + 1) :
        SubSeq(hay, i, i + Len(needle) - 1) = needle

\* Array.prototype.slice(0, n)
Take(seq, n) == SubSeq(seq, 1, Min(n, Len(seq)))

\* The search terms typed: every string of at most MaxTermLen characters.
Terms == UNION {[1..n -> Chars] : n \in 0..MaxTermLen}

\* The kinds of stream rows: [name, description, tags]; tags is an array or not.
NoTags == [isArray |-> FALSE, items |-> <<>>]
Tags(items) == [isArray |-> TRUE, items |-> items]
Kinds == {"byName", "byDesc", "byTag", "plain"}
Fields(kind) ==
    CASE kind = "byName" ->
           [name |-> <<"A", "b">>, description |-> <<"b">>, tags |-> NoTags]
      [] kind = "byDesc" ->
           [name |-> <<"b">>, description |-> <<"B", "A">>, tags |-> Tags(<<>>)]
      [] kind = "byTag" ->
           [name |-> <<"b">>, description |-> <<"b">>,
            tags |-> Tags(<< <<"b">>, <<"a", "A">> >>)]
      [] OTHER ->
           [name |-> <<"b">>, description |-> <<"b", " ", "b">>, tags |-> NoTags]

\* The positions of the table that may hold a catHit row, and its sizes.
MaxCat == CandidateLimit + Overflow
MarkPositions == {1, ResultLimit + 1, CandidateLimit, CandidateLimit + 1}
CatLens ==
    {0, 1, ResultLimit - 1, ResultLimit, ResultLimit + 1, CandidateLimit, MaxCat}

\* Row i of the streams table, and the table in store order.
Row(i) ==
    LET f == Fields(IF i \in catMarks THEN catHit ELSE catFill)
    IN  [id |-> i, name |-> f.name, description |-> f.description, tags |-> f.tags]
Catalog == [i \in 1..catLen |-> Row(i)]

\* supabase.from('streams').select('*').limit(n), when it returns data.
Select(n) == Take(Catalog, n)

\* The filter callback of search(); tagMatch_every is tagMatch with every()
\* in place of some().
tagMatch_every(row, searchLower) ==
    /\ row.tags.isArray
    /\ \A k \in 1..Len(row.tags.items) :
          Includes(ToLowerCase(row.tags.items[k]), searchLower)
tagMatch(row, searchLower) ==
    /\ row.tags.isArray
    /\ \E k \in 1..Len(row.tags.items) :
          Includes(ToLowerCase(row.tags.items[k]), searchLower)
Matches(row, searchLower) ==
    \/ Includes(ToLowerCase(row.name), searchLower)
    \/ Includes(ToLowerCase(row.description), searchLower)
    \/ tagMatch(row, searchLower)

\* Array.prototype.filter with that callback.
Filter(data, searchLower) == SelectSeq(data, LAMBDA row : Matches(row, searchLower))

\* data.filter(...).slice(0, 6), and the same with the slice taken first.
Filtered_sliceFirst(data, searchLower) == Filter(Take(data, ResultLimit), searchLower)
Filtered(data, searchLower) == Take(Filter(data, searchLower), ResultLimit)

\* The rows the empty-term branch shows when its select returns data, and the
\* same with the limit of the candidate select.
EmptyTermData_window == Select(CandidateLimit)
EmptyTermData == Select(EmptyLimit)

\* What search() leaves when a select returns an error or throws: the error
\* branches and the catch block. Failed_uncaught is search() without them.
Failed_uncaught(prev) == [results |-> prev, loading |-> TRUE, raised |-> TRUE]
Failed(prev) == [results |-> <<>>, loading |-> FALSE, raised |-> FALSE]

\* The component as mounted: no search has run.
SearchIdle ==
    /\ sPc = "idle"
    /\ q = <<>>
    /\ branch = "empty"
    /\ results = <<>>
    /\ loading = TRUE
    /\ outcome = "none"
    /\ raised = FALSE

SearchInit ==
    /\ catLen \in CatLens
    /\ catMarks \in SUBSET (MarkPositions \cap 1..catLen)
    /\ catHit \in {"byName", "byDesc", "byTag"}
    /\ catFill \in {"plain", "byDesc"}
    /\ SearchIdle

\* The search box at rest, for the behaviours of the other components.
SearchRest ==
    /\ catLen = 0
    /\ catMarks = {}
    /\ catHit = "byName"
    /\ catFill = "plain"
    /\ SearchIdle

\* search(q) up to its await: setLoading(true) and the choice of the select.
SearchStart ==
    /\ sPc \in {"idle", "done"}
    /\ \E t \in Terms :
        /\ q' = t
        /\ branch' = IF Trim(t) = <<>> THEN "empty" ELSE "filter"
    /\ loading' = TRUE
    /\ sPc' = "await"
    /\ outcome' = "none"
    /\ raised' = FALSE
    /\ UNCHANGED <<catLen, catMarks, catHit, catFill, results>>
    /\ UNCHANGED searchOthers

\* The pending select returns data and no error.
SearchData ==
    /\ sPc = "await"
    /\ results' = IF branch = "empty"
                    THEN EmptyTermData
                    ELSE LET data == Select(CandidateLimit)
                             searchLower == ToLowerCase(Trim(q))
                         IN  IF Len(data) = 0 THEN <<>>
                             ELSE Filtered(data, searchLower)
    /\ loading' = FALSE
    /\ sPc' = "done"
    /\ outcome' = "data"
    /\ UNCHANGED <<catLen, catMarks, catHit, catFill, q, branch, raised>>
    /\ UNCHANGED searchOthers

\* The pending select ends in a failure.
SearchFails(how) ==
    /\ sPc = "await"
    /\ LET end == Failed(results)
       IN  /\ results' = end.results
           /\ loading' = end.loading
           /\ raised' = end.raised
    /\ sPc' = "done"
    /\ outcome' = how
    /\ UNCHANGED <<catLen, catMarks, catHit, catFill, q, branch>>
    /\ UNCHANGED searchOthers

\* The pending select returns { data: null, error }.
SearchError == SearchFails("error")

\* The pending select throws.
SearchThrow == SearchFails("throw")

SearchNext == SearchStart \/ SearchData \/ SearchError \/ SearchThrow

\* ==================================================================
\* Admin aggregation: GET /api/admin/users
\* ==================================================================
ALLOWED_ADMIN_EMAILS ==
    {"joseph@cryptotap.io", "admin@dataplug.dev", "joseph@dataplug.dev"}

\* The sessions of the identity provider: token -> email of its user. An email
\* is an allow-listed one, one differing from it in case or by a trailing blank,
\* a stranger's, the empty string, or none.
SessionEmail(tok) ==
    CASE tok = "tAdmin" -> "admin@dataplug.dev"
      [] tok = "tJoseph" -> "joseph@cryptotap.io"
      [] tok = "tUpper" -> "Admin@dataplug.dev"
      [] tok = "tBlank" -> "admin@dataplug.dev "
      [] tok = "tEve" -> "eve@example.com"
      [] tok = "tEmpty" -> ""
      [] OTHER -> Null
SessionTokens == {"tAdmin", "tJoseph", "tUpper", "tBlank", "tEve", "tEmpty", "tNoEmail"}

\* Authorization headers, as sequences of parts: absent (Null), empty, a token
\* with or without the 'Bearer ' prefix, a token no session has.
NoHeader == << Null >>
Headers ==
    {NoHeader, <<>>, <<"Bearer ", "tStale">>, <<"Bearer ", "Bearer ", "tAdmin">>}
        \cup {<<"Bearer ", t>> : t \in SessionTokens}
        \cup {<<t>> : t \in {"tAdmin", "tEve"}}

\* !authHeader
NoAuth(h) == h = NoHeader \/ h = <<>>

\* authHeader.replace('Bearer ', ''): the first occurrence is removed.
ReplaceBearer(h) ==
    LET at == {i \in 1..Len(h) : h[i] = "Bearer "}
    IN  IF at = {} THEN h
        ELSE SubSeq(h, 1, MinOf(at) - 1) \o SubSeq(h, MinOf(at) + 1, Len(h))

\* { data: { user }, error } of auth.getUser(token), when the call returns.
NoUser == [present |-> FALSE, email |-> Null]
GetUser(tok) ==
    IF Len(tok) = 1 /\ tok[1] \in SessionTokens
      THEN [how |-> "returned", error |-> FALSE,
            user |-> [present |-> TRUE, email |-> SessionEmail(tok[1])]]
      ELSE [how |-> "returned", error |-> TRUE, user |-> NoUser]
GetUserFailed == [how |-> "returned", error |-> TRUE, user |-> NoUser]
GetUserThrew == [how |-> "threw", error |-> FALSE, user |-> NoUser]
Unresolved == [how |-> "none", error |-> FALSE, user |-> NoUser]

\* authError || !user || !user.email || !ALLOWED_ADMIN_EMAILS.includes(user.email)
\* Forbidden_noList is the check without its last disjunct.
Forbidden_noList(res) ==
    res.error \/ ~res.user.present \/ Falsy(res.user.email)
Forbidden(res) ==
    \/ res.error
    \/ ~res.user.present
    \/ Falsy(res.user.email)
    \/ res.user.email \notin ALLOWED_ADMIN_EMAILS

\* The accounts of the provider: [id, email, created_at], email possibly absent.
Account(i) ==
    [id |-> i, email |-> IF i = 1 THEN "eve@example.com" ELSE Null, created_at |-> i]
\* users.users.map(u => ({ id, email: u.email || 'No email', created_at }))
UserData(us) ==
    [i \in 1..Len(us) |->
        [id |-> us[i].id,
         email |-> IF Falsy(us[i].email) THEN "No email" ELSE us[i].email,
         created_at |-> us[i].created_at]]

ErrorBody(msg) == [error |-> msg, users |-> <<>>]
UsersBody(us) == [error |-> Null, users |-> us]

AdminReply(code, body) ==
    /\ aPc' = "done"
    /\ aStatus' = code
    /\ aBody' = body

\* No request has arrived.
AdminIdle ==
    /\ aPc = "idle"
    /\ authHeader = NoHeader
    /\ token = <<>>
    /\ resolved = Unresolved
    /\ elevated = FALSE
    /\ aStatus = 0
    /\ aBody = ErrorBody(Null)

AdminInit ==
    /\ serviceRoleKey \in BOOLEAN
    /\ accounts \in {[i \in 1..n |-> Account(i)] : n \in 0..MaxAccounts}
    /\ AdminIdle

\* The admin route at rest, for the behaviours of the other components.
AdminRest ==
    /\ serviceRoleKey = TRUE
    /\ accounts = <<>>
    /\ AdminIdle

\* GET up to its first await: the Authorization header and the token.
AdminStart ==
    /\ aPc \in {"idle", "done"}
    /\ \E h \in Headers :
        /\ authHeader' = h
        /\ IF NoAuth(h)
             THEN /\ AdminReply(401, ErrorBody("Unauthorized"))
                  /\ token' = <<>>
             ELSE /\ token' = ReplaceBearer(h)
                  /\ aPc' = "getUser"
                  /\ aStatus' = 0
                  /\ aBody' = ErrorBody(Null)
    /\ resolved' = Unresolved
    /\ elevated' = FALSE
    /\ UNCHANGED <<serviceRoleKey, accounts>>
    /\ UNCHANGED adminOthers

\* auth.getUser(token) ends, and the code up to the next await: the admin
\* check, the service-role key check, the service-role client.
\* AdminGetUser_keyFirst is the handler with the service-role key check moved
\* in front of the admin check.
AdminGetUser_keyFirst ==
    /\ aPc = "getUser"
    /\ \E res \in {GetUser(token), GetUserFailed, GetUserThrew} :
        /\ resolved' = res
        /\ IF res.how = "threw"
             THEN AdminReply(500, ErrorBody("Internal server error")) /\ UNCHANGED elevated
             ELSE IF ~serviceRoleKey
               THEN /\ AdminReply(500, ErrorBody("Service role key not configured"))
                    /\ UNCHANGED elevated
               ELSE IF Forbidden(res)
                 THEN AdminReply(403, ErrorBody("Forbidden")) /\ UNCHANGED elevated
                 ELSE /\ elevated' = TRUE
                      /\ aPc' = "listUsers"
                      /\ UNCHANGED <<aStatus, aBody>>
    /\ UNCHANGED <<serviceRoleKey, accounts, authHeader, token>>
    /\ UNCHANGED adminOthers
AdminGetUser ==
    /\ aPc = "getUser"
    /\ \E res \in {GetUser(token), GetUserFailed, GetUserThrew} :
        /\ resolved' = res
        /\ IF res.how = "threw"
             THEN AdminReply(500, ErrorBody("Internal server error")) /\ UNCHANGED elevated
             ELSE IF Forbidden(res)
               THEN AdminReply(403, ErrorBody("Forbidden")) /\ UNCHANGED elevated
               ELSE IF ~serviceRoleKey
                 THEN /\ AdminReply(500, ErrorBody("Service role key not configured"))
                      /\ UNCHANGED elevated
                 ELSE /\ elevated' = TRUE
                      /\ aPc' = "listUsers"
                      /\ UNCHANGED <<aStatus, aBody>>
    /\ UNCHANGED <<serviceRoleKey, accounts, authHeader, token>>
    /\ UNCHANGED adminOthers

\* adminClient.auth.admin.listUsers() ends.
AdminListUsers ==
    /\ aPc = "listUsers"
    /\ \E o \in {"data", "error", "throw"} :
        IF o = "data"
          THEN AdminReply(200, UsersBody(UserData(accounts)))
          ELSE AdminReply(500, ErrorBody("Internal server error"))
    /\ UNCHANGED <<serviceRoleKey, accounts, authHeader, token, resolved, elevated>>
    /\ UNCHANGED adminOthers

AdminNext == AdminStart \/ AdminGetUser \/ AdminListUsers

\* ==================================================================
\* Connectivity probe of the server: GET /api/ping
\* ==================================================================
\* setTimeout(() => controller.abort(), 3000)
PingTimeout == 3000

\* A body without a latency field, or with latency null.
NoLatency == -1

\* The endpoint parameter: absent, empty, or the address of a server that
\* answers 2xx, answers 404 or 500, refuses the connection, cannot be parsed
\* as a URL, or accepts the connection and never answers.
PingEndpoints ==
    {Null, "", "up", "missing", "failing", "refused", "not a url", "silent"}

\* How fetch(endpoint) settles when the abort timer does not end it.
Answer(endpoint) ==
    CASE endpoint = "up" -> "ok"
      [] endpoint \in {"missing", "failing"} -> "notok"
      [] endpoint \in {"refused", "not a url"} -> "null"
      [] OTHER -> "never"

\* The instants at which the handler can run, as ms after startTime: the
\* timer fires at PingTimeout or up to MaxLate ms late.
Elapsed == {0, 1, PingTimeout - 1, PingTimeout, PingTimeout + 1, PingTimeout + MaxLate}
StartTimes == {0, 1000}

\* response && response.ok, and the test without .ok
Ok_truthy(res) == res # "null"
Ok(res) == res = "ok"

\* The body of lines 138-142.
PingBody(res, latency) ==
    IF Ok(res)
      THEN [latency |-> latency, error |-> Null]
      ELSE [latency |-> latency, error |-> "Request failed"]

PingReply(code, body) ==
    /\ gPc' = "done"
    /\ gStatus' = code
    /\ gBody' = body

\* No request has arrived.
PingIdle ==
    /\ gPc = "idle"
    /\ gEndpoint = Null
    /\ startTime = 0
    /\ gNow = 0
    /\ response = "none"
    /\ aborted = FALSE
    /\ gStatus = 0
    /\ gBody = [latency |-> NoLatency, error |-> Null]

PingInit == PingIdle

\* The ping route at rest, for the behaviours of the other components.
PingRest == PingIdle

\* GET up to the await: the endpoint check, startTime, the abort timer, fetch().
PingGetStart ==
    /\ gPc \in {"idle", "done"}
    /\ \E e \in PingEndpoints, t0 \in StartTimes :
        /\ gEndpoint' = e
        /\ startTime' = t0
        /\ gNow' = t0
        /\ IF Falsy(e)
             THEN PingReply(400, [latency |-> NoLatency, error |-> "Endpoint required"])
             ELSE /\ gPc' = "fetch"
                  /\ gStatus' = 0
                  /\ gBody' = [latency |-> NoLatency, error |-> Null]
    /\ response' = "none"
    /\ aborted' = FALSE
    /\ UNCHANGED pingOthers

\* Time passes while the fetch is pending.
PingGetTick ==
    /\ gPc = "fetch"
    /\ \E d \in Elapsed :
        /\ startTime + d > gNow
        /\ \A e \in Elapsed : startTime + e > gNow => e >= d
        /\ gNow' = startTime + d
    /\ UNCHANGED <<gPc, gEndpoint, startTime, response, aborted, gStatus, gBody>>
    /\ UNCHANGED pingOthers

\* The fetch settles before the timer fires: a response, or a rejection that
\* .catch(() => null) turns into null; then clearTimeout, latency and the answer.
PingGetSettle ==
    /\ gPc = "fetch"
    /\ Answer(gEndpoint) # "never"
    /\ response' = Answer(gEndpoint)
    /\ PingReply(200, PingBody(Answer(gEndpoint), gNow - startTime))
    /\ UNCHANGED <<gEndpoint, startTime, gNow, aborted>>
    /\ UNCHANGED pingOthers

\* The timer fires: controller.abort() rejects the fetch with an AbortError,
\* which .catch(() => null) turns into null as well; the handler goes on at
\* the same or a later instant. The catch block of lines 143-148 is never
\* entered: fetch() reports every failure by rejecting its promise.
PingGetAbort ==
    /\ gPc = "fetch"
    /\ gNow - startTime >= PingTimeout
    /\ aborted' = TRUE
    /\ response' = "null"
    /\ \E d \in Elapsed :
        LET now == startTime + d
        IN  /\ now >= gNow
            /\ gNow' = now
            /\ PingReply(200, PingBody("null", now - startTime))
    /\ UNCHANGED <<gEndpoint, startTime>>
    /\ UNCHANGED pingOthers

PingNext == PingGetStart \/ PingGetTick \/ PingGetSettle \/ PingGetAbort

\* ==================================================================
\* Admin aggregation: fetchStreams() of admin/page.tsx
\* ==================================================================
\* A counter column that holds NULL.
NullCount == -1
Counts == {NullCount, 0, 1}

\* The rows of the table in the order of .order('name'): row i has id i and
\* the i-th name.
StatRow(i, n, p) == [id |-> i, name |-> i, clicks_node |-> n, clicks_python |-> p]

\* data.map(stream => ({ id, name, clicks_node: clicks_node || 0, ..., total }))
StreamStats(data) ==
    [i \in 1..Len(data) |->
        [id |-> data[i].id,
         name |-> data[i].name,
         clicks_node |-> OrZero(data[i].clicks_node),
         clicks_python |-> OrZero(data[i].clicks_python),
         total |-> OrZero(data[i].clicks_node) + OrZero(data[i].clicks_python)]]

\* The comparator (a, b) => b.total - a.total, and the one of an ascending sort.
Compare_ascending(a, b) == a.total - b.total
Compare(a, b) == b.total - a.total

\* Array.prototype.sort with Compare: a stable sort, here by insertion of each
\* element behind those that do not come after it.
Insert(x, sorted) ==
    LET k == Cardinality({i \in 1..Len(sorted) : Compare(sorted[i], x) <= 0})
    IN  SubSeq(sorted, 1, k) \o <<x>> \o SubSeq(sorted, k + 1, Len(sorted))
RECURSIVE Sort(_)
Sort(seq) ==
    IF seq = <<>> THEN <<>>
    ELSE Insert(seq[Len(seq)], Sort(SubSeq(seq, 1, Len(seq) - 1)))

\* The page before its first fetch.
StatsIdle ==
    /\ tPc = "idle"
    /\ tOutcome = "none"
    /\ streams = <<>>

StatsInit ==
    /\ user \in BOOLEAN
    /\ \E len \in 0..MaxRows : \E f \in [1..len -> Counts \X Counts] :
           statRows = [i \in 1..len |-> StatRow(i, f[i][1], f[i][2])]
    /\ StatsIdle

\* The admin page at rest, for the behaviours of the other components.
StatsRest ==
    /\ user = FALSE
    /\ statRows = <<>>
    /\ StatsIdle

\* The effect runs fetchStreams() when a user is signed in: the select is sent.
StatsFetch ==
    /\ user
    /\ tPc \in {"idle", "done"}
    /\ tPc' = "await"
    /\ UNCHANGED <<user, statRows, tOutcome, streams>>
    /\ UNCHANGED statsOthers

\* The select returns the rows, or no error and no data: setStreams.
StatsData ==
    /\ tPc = "await"
    /\ \E o \in {"data", "null"} :
        /\ tOutcome' = o
        /\ streams' = Sort(StreamStats(IF o = "data" THEN statRows ELSE <<>>))
    /\ tPc' = "done"
    /\ UNCHANGED <<user, statRows>>
    /\ UNCHANGED statsOthers

\* The select returns an error or throws: logged, the list stays as it is.
StatsFails ==
    /\ tPc = "await"
    /\ \E o \in {"error", "throw"} : tOutcome' = o
    /\ tPc' = "done"
    /\ UNCHANGED <<user, statRows, streams>>
    /\ UNCHANGED statsOthers

StatsNext == StatsFetch \/ StatsData \/ StatsFails

\* ==================================================================
\* Connectivity probes of the browser: ping() of HomeClient.tsx and
\* testStream() of admin/test-streams/page.tsx
\* ==================================================================
\* setTimeout(..., 3000) of ping, setTimeout(..., 5000) of testStream, and the
\* latency ping records for a failed connection.
ClientPingTimeout == 3000
TestTimeout == 5000
ErrorLatency == 9999

TimeoutOf(kind) == IF kind = "ping" THEN ClientPingTimeout ELSE TestTimeout

\* The instants at which a callback of the probe can run, as ms after its start.
ProbeElapsed(kind) ==
    {0, 1, TimeoutOf(kind) - 1, TimeoutOf(kind), TimeoutOf(kind) + MaxLate}

\* ws.close(): a connecting or open socket starts closing, any other stays.
Close(state) == IF state \in {"CONNECTING", "OPEN"} THEN "CLOSING" ELSE state

\* clearTimeout(timeoutId): a pending timer is cancelled, any other stays.
ClearTimeout(t) == IF t = "pending" THEN "cleared" ELSE t

NoResult == [status |-> "none", latency |-> NoLatency, error |-> Null]
Works(ms) == [status |-> "works", latency |-> ms, error |-> Null]
Broken(msg) == [status |-> "broken", latency |-> NoLatency, error |-> msg]

\* No probe has started.
ProbeIdle ==
    /\ probe = "none"
    /\ ws = "none"
    /\ opened = FALSE
    /\ wsDue = "none"
    /\ timer = "none"
    /\ wStart = 0
    /\ wNow = 0
    /\ pinging = ""
    /\ seen = ""
    /\ latencies = NoLatency
    /\ wsResolved = FALSE
    /\ result = NoResult
    /\ closeCalled = FALSE
    /\ reported = FALSE
    /\ firstEvent = "none"
    /\ other = "none"
    /\ otherSeen = ""
    /\ testing = FALSE
    /\ completed = 0
    /\ testResults = <<>>
    /\ loop = "idle"

\* The test page has fetched up to MaxStreams streams.
ProbeInit ==
    /\ nStreams \in 0..MaxStreams
    /\ ProbeIdle

\* The pages at rest, for the behaviours of the other components.
ProbeRest ==
    /\ nStreams = 0
    /\ ProbeIdle

\* ping(endpoint, id) up to its return: the marker, the socket, the timer, the
\* callbacks; new WebSocket() throws on an endpoint that is no ws: URL.
PingStart ==
    /\ probe = "none"
    /\ probe' = "ping"
    /\ seen' = pinging
    /\ \E t0 \in StartTimes, throws \in BOOLEAN :
        /\ wStart' = t0
        /\ wNow' = t0
        /\ IF throws
             THEN /\ ws' = "none"
                  /\ timer' = "none"
                  /\ latencies' = ErrorLatency
                  /\ pinging' = ""
                  /\ reported' = TRUE
             ELSE /\ ws' = "CONNECTING"
                  /\ timer' = "pending"
                  /\ pinging' = "s1"
                  /\ UNCHANGED <<latencies, reported>>
    /\ UNCHANGED <<opened, wsDue, wsResolved, result, closeCalled>>
    /\ UNCHANGED <<firstEvent, otherVars, runVars>>
    /\ UNCHANGED probeOthers

\* The 3-second timer of ping fires.
PingOnTimeout ==
    /\ probe = "ping"
    /\ timer = "pending"
    /\ wsDue # "due"
    /\ wNow - wStart >= ClientPingTimeout
    /\ timer' = "fired"
    /\ IF ws = "CONNECTING"
         THEN /\ ws' = Close(ws)
              /\ closeCalled' = TRUE
              /\ latencies' = ClientPingTimeout
              /\ pinging' = ""
              /\ reported' = TRUE
         ELSE UNCHANGED <<ws, closeCalled, latencies, pinging, reported>>
    /\ UNCHANGED <<probe, opened, wsDue, wStart, wNow, seen, wsResolved, result>>
    /\ UNCHANGED <<firstEvent, otherVars, runVars>>
    /\ UNCHANGED probeOthers

\* The connection is established: the open event, ws.onopen of ping.
\* PingOnOpen_noClose is the callback without ws?.close().
PingOnOpen_noClose ==
    /\ probe = "ping"
    /\ ws = "CONNECTING"
    /\ opened' = TRUE
    /\ timer' = ClearTimeout(timer)
    /\ latencies' = wNow - wStart
    /\ ws' = "OPEN"
    /\ closeCalled' = FALSE
    /\ pinging' = ""
    /\ reported' = TRUE
    /\ UNCHANGED <<probe, wsDue, wStart, wNow, seen, wsResolved, result>>
    /\ UNCHANGED <<firstEvent, otherVars, runVars>>
    /\ UNCHANGED probeOthers
PingOnOpen ==
    /\ probe = "ping"
    /\ ws = "CONNECTING"
    /\ opened' = TRUE
    /\ timer' = ClearTimeout(timer)
    /\ latencies' = wNow - wStart
    /\ ws' = Close("OPEN")
    /\ closeCalled' = TRUE
    /\ pinging' = ""
    /\ reported' = TRUE
    /\ UNCHANGED <<probe, wsDue, wStart, wNow, seen, wsResolved, result>>
    /\ UNCHANGED <<firstEvent, otherVars, runVars>>
    /\ UNCHANGED probeOthers

\* The browser may fail the connection of a socket that is not closed: while
\* it connects (also after close() was called on it), or when an open one
\* breaks. It sets readyState CLOSED and dispatches error, then close.
CanFail == ws \in {"CONNECTING", "OPEN", "CLOSING"} /\ wsDue = "none"

\* The browser may close an established connection cleanly: close only.
CanClose ==
    \/ wsDue = "due"
    \/ ws \in {"OPEN", "CLOSING"} /\ opened /\ wsDue = "none"

\* The error event, ws.onerror of ping.
PingOnError ==
    /\ probe = "ping"
    /\ CanFail
    /\ ws' = "CLOSED"
    /\ wsDue' = "due"
    /\ timer' = ClearTimeout(timer)
    /\ latencies' = ErrorLatency
    /\ pinging' = ""
    /\ reported' = TRUE
    /\ UNCHANGED <<probe, opened, wStart, wNow, seen, wsResolved, result, closeCalled>>
    /\ UNCHANGED <<firstEvent, otherVars, runVars>>
    /\ UNCHANGED probeOthers

\* The close event, ws.onclose of ping; pinging is the value the callback
\* closed over.
PingOnClose ==
    /\ probe = "ping"
    /\ CanClose
    /\ ws' = "CLOSED"
    /\ wsDue' = "done"
    /\ timer' = ClearTimeout(timer)
    /\ pinging' = IF seen = "s1" THEN "" ELSE pinging
    /\ UNCHANGED <<probe, opened, wStart, wNow, seen, latencies, wsResolved, result,
                   closeCalled, reported>>
    /\ UNCHANGED <<firstEvent, otherVars, runVars>>
    /\ UNCHANGED probeOthers

\* testStream(stream) up to its return: the timer, the socket, the callbacks,
\* all of them new; times are kept relative to the start of the probe.
TestStart ==
    /\ probe' = "testStream"
    /\ opened' = FALSE
    /\ wsDue' = "none"
    /\ closeCalled' = FALSE
    /\ firstEvent' = "none"
    /\ \E t0 \in StartTimes, throws \in BOOLEAN :
        /\ wStart' = t0
        /\ wNow' = t0
        /\ IF throws
             THEN /\ ws' = "none"
                  /\ wsResolved' = TRUE
                  /\ timer' = ClearTimeout("pending")
                  /\ result' = Broken("Failed to connect")
                  /\ reported' = TRUE
             ELSE /\ ws' = "CONNECTING"
                  /\ timer' = "pending"
                  /\ wsResolved' = FALSE
                  /\ result' = NoResult
                  /\ reported' = FALSE
    /\ UNCHANGED <<pinging, seen, latencies, otherVars>>

\* The entries of results: the placeholder of stream i, and its result.
Testing(i) == [stream |-> i, status |-> "testing", error |-> Null]
Tested(i, res) == [stream |-> i, status |-> res.status, error |-> res.error]

\* A click on 'Test All Streams' (disabled while testing or with no stream):
\* testAllStreams() up to its first await, testStream(streams[0]) included.
TestAllStart ==
    /\ probe # "ping"
    /\ other = "none"
    /\ ~testing
    /\ nStreams > 0
    /\ testing' = TRUE
    /\ testResults' = <<Testing(1)>>
    /\ completed' = 0
    /\ loop' = "test"
    /\ TestStart
    /\ UNCHANGED nStreams
    /\ UNCHANGED probeOthers

\* The promise of testStream has resolved: testAllStreams() stores the result
\* and starts the 100 ms delay.
TestAllResume ==
    /\ loop = "test"
    /\ wsResolved
    /\ testResults' = [testResults EXCEPT ![Len(testResults)] = Tested(Len(testResults), result)]
    /\ completed' = Len(testResults)
    /\ loop' = "delay"
    /\ UNCHANGED <<probe, ws, opened, wsDue, timer, wStart, wNow, pinging, seen,
                   latencies, wsResolved, result, closeCalled, reported, firstEvent,
                   otherVars, nStreams, testing>>
    /\ UNCHANGED probeOthers

\* The delay is over: the next round of the loop up to its await, or the end
\* of the loop. TestAllDelay_oneShort is the loop with the bound
\* streams.length - 1.
TestAllDelay_oneShort ==
    /\ loop = "delay"
    /\ IF Len(testResults) + 1 < nStreams
         THEN /\ testResults' = Append(testResults, Testing(Len(testResults) + 1))
              /\ completed' = Len(testResults)
              /\ loop' = "test"
              /\ TestStart
              /\ UNCHANGED testing
         ELSE /\ testing' = FALSE
              /\ loop' = "idle"
              /\ UNCHANGED <<probe, ws, opened, wsDue, timer, wStart, wNow, pinging,
                             seen, latencies, wsResolved, result, closeCalled,
                             reported, firstEvent, otherVars, testResults, completed>>
    /\ UNCHANGED nStreams
    /\ UNCHANGED probeOthers
TestAllDelay ==
    /\ loop = "delay"
    /\ IF Len(testResults) < nStreams
         THEN /\ testResults' = Append(testResults, Testing(Len(testResults) + 1))
              /\ completed' = Len(testResults)
              /\ loop' = "test"
              /\ TestStart
              /\ UNCHANGED testing
         ELSE /\ testing' = FALSE
              /\ loop' = "idle"
              /\ UNCHANGED <<probe, ws, opened, wsDue, timer, wStart, wNow, pinging,
                             seen, latencies, wsResolved, result, closeCalled,
                             reported, firstEvent, otherVars, testResults, completed>>
    /\ UNCHANGED nStreams
    /\ UNCHANGED probeOthers

\* The 5-second timer of testStream fires; cleanup() finds it fired.
TestOnTimeout ==
    /\ probe = "testStream"
    /\ timer = "pending"
    /\ wsDue # "due"
    /\ wNow - wStart >= TestTimeout
    /\ firstEvent' = IF firstEvent = "none" THEN "timeout" ELSE firstEvent
    /\ IF ~wsResolved
         THEN /\ wsResolved' = TRUE
              /\ timer' = ClearTimeout("fired")
              /\ ws' = Close(ws)
              /\ closeCalled' = (closeCalled \/ ws # "none")
              /\ result' = Broken("Timeout (5s)")
              /\ reported' = TRUE
         ELSE /\ timer' = "fired"
              /\ UNCHANGED <<wsResolved, ws, closeCalled, result, reported>>
    /\ UNCHANGED <<probe, opened, wsDue, wStart, wNow, pinging, seen, latencies>>
    /\ UNCHANGED <<otherVars, runVars>>
    /\ UNCHANGED probeOthers

\* The open event, ws.onopen of testStream.
TestOnOpen ==
    /\ probe = "testStream"
    /\ ws = "CONNECTING"
    /\ opened' = TRUE
    /\ firstEvent' = IF firstEvent = "none" THEN "open" ELSE firstEvent
    /\ IF ~wsResolved
         THEN /\ wsResolved' = TRUE
              /\ timer' = ClearTimeout(timer)
              /\ ws' = Close("OPEN")
              /\ closeCalled' = TRUE
              /\ result' = Works(wNow - wStart)
              /\ reported' = TRUE
         ELSE /\ ws' = "OPEN"
              /\ UNCHANGED <<wsResolved, timer, closeCalled, result, reported>>
    /\ UNCHANGED <<probe, wsDue, wStart, wNow, pinging, seen, latencies>>
    /\ UNCHANGED <<otherVars, runVars>>
    /\ UNCHANGED probeOthers

\* The error and close events of testStream: ws.onerror and ws.onclose, which
\* differ in the message. TestOnEnd_unguarded is the callback without the
\* test of resolved.
TestOnEnd_unguarded(due, msg) ==
    /\ probe = "testStream"
    /\ wsDue' = due
    /\ firstEvent' = IF firstEvent = "none" THEN msg ELSE firstEvent
    /\ wsResolved' = TRUE
    /\ timer' = ClearTimeout(timer)
    /\ ws' = Close("CLOSED")
    /\ closeCalled' = TRUE
    /\ result' = Broken(msg)
    /\ reported' = TRUE
    /\ UNCHANGED <<probe, opened, wStart, wNow, pinging, seen, latencies>>
    /\ UNCHANGED <<otherVars, runVars>>
    /\ UNCHANGED probeOthers
TestOnEnd(due, msg) ==
    /\ probe = "testStream"
    /\ wsDue' = due
    /\ firstEvent' = IF firstEvent = "none" THEN msg ELSE firstEvent
    /\ IF ~wsResolved
         THEN /\ wsResolved' = TRUE
              /\ timer' = ClearTimeout(timer)
              /\ ws' = Close("CLOSED")
              /\ closeCalled' = TRUE
              /\ result' = Broken(msg)
              /\ reported' = TRUE
         ELSE /\ ws' = "CLOSED"
              /\ UNCHANGED <<wsResolved, timer, closeCalled, result, reported>>
    /\ UNCHANGED <<probe, opened, wStart, wNow, pinging, seen, latencies>>
    /\ UNCHANGED <<otherVars, runVars>>
    /\ UNCHANGED probeOthers

TestOnError == CanFail /\ TestOnEnd("due", "Connection failed")

TestOnClose == CanClose /\ TestOnEnd("done", "Connection closed")

\* A second ping, of stream s2, as far as the first can tell: ping(endpoint,
\* 's2') sets the marker; its open, its error, its timer on the connecting
\* socket or a throwing constructor clear it; its close event clears it if
\* the marker it closed over was s2.
OtherPingStart ==
    /\ probe # "testStream"
    /\ other = "none"
    /\ pinging # "s2"
    /\ otherSeen' = pinging
    /\ \E throws \in BOOLEAN :
        IF throws
          THEN other' = "closed" /\ pinging' = ""
          ELSE other' = "connecting" /\ pinging' = "s2"
    /\ UNCHANGED <<probe, ws, opened, wsDue, timer, wStart, wNow, seen, latencies,
                   wsResolved, result, closeCalled, reported, firstEvent, runVars>>
    /\ UNCHANGED probeOthers

OtherPingResolve ==
    /\ other = "connecting"
    /\ other' = "resolved"
    /\ pinging' = ""
    /\ UNCHANGED <<probe, ws, opened, wsDue, timer, wStart, wNow, seen, latencies,
                   wsResolved, result, closeCalled, reported, firstEvent, otherSeen,
                   runVars>>
    /\ UNCHANGED probeOthers

OtherPingClose ==
    /\ other = "resolved"
    /\ other' = "closed"
    /\ pinging' = IF otherSeen = "s2" THEN "" ELSE pinging
    /\ UNCHANGED <<probe, ws, opened, wsDue, timer, wStart, wNow, seen, latencies,
                   wsResolved, result, closeCalled, reported, firstEvent, otherSeen,
                   runVars>>
    /\ UNCHANGED probeOthers

\* Time passes while the probe waits for its socket or its timer.
ProbeTick ==
    /\ probe # "none"
    /\ wsDue # "due"
    /\ timer = "pending" \/ ws \in {"CONNECTING", "OPEN", "CLOSING"}
    /\ \E d \in ProbeElapsed(probe) :
        /\ wStart + d > wNow
        /\ \A e \in ProbeElapsed(probe) : wStart + e > wNow => e >= d
        /\ wNow' = wStart + d
    /\ UNCHANGED <<probe, ws, opened, wsDue, timer, wStart, pinging, seen, latencies,
                   wsResolved, result, closeCalled, reported>>
    /\ UNCHANGED <<firstEvent, otherVars, runVars>>
    /\ UNCHANGED probeOthers

ProbeNext ==
    \/ PingStart \/ PingOnTimeout \/ PingOnOpen \/ PingOnError \/ PingOnClose
    \/ OtherPingStart \/ OtherPingResolve \/ OtherPingClose
    \/ TestAllStart \/ TestAllResume \/ TestAllDelay
    \/ TestOnTimeout \/ TestOnOpen \/ TestOnError \/ TestOnClose
    \/ ProbeTick

\* ==================================================================
\* Admin aggregation: the duplicate report, GET of part_002
\* ==================================================================
\* A text column that holds NULL.
NoText == << Null >>

\* The names and endpoints of streams, names in the order of .order('name'):
\* some differ in case and blanks only, some hold the separator of the exact key.
DupNames ==
    << <<"a">>, <<"A", " ">>, <<"a", "|", "|", "|", "b">>, <<" ">>, NoText >>
DupEndpoints ==
    { <<"a">>, <<" ", "A">>, <<"b", "|", "|", "|", "a">>, NoText }

\* A row of the table the select returns: stream i has id i.
DupRow(i, n, e) == [id |-> i, name |-> DupNames[n], endpoint |-> e]

\* text?.toLowerCase().trim() || '' and (text || '').toLowerCase().trim()
Normalized(text) == IF text = NoText THEN <<>> ELSE Trim(ToLowerCase(text))

Separator == <<"|", "|", "|">>

\* The keys of the three Maps.
NameKey(row) == Normalized(row.name)
EndpointKey(row) == Normalized(row.endpoint)
ExactKey(row) ==
    Normalized(row.name) \o Separator \o Normalized(row.endpoint)

\* String.prototype.split('|||')
RECURSIVE Split(_)
Split(str) ==
    LET at == {i \in 1..(Len(str) - 2) : SubSeq(str, i, i + 2) = Separator}
    IN  IF at = {} THEN <<str>>
        ELSE <<SubSeq(str, 1, MinOf(at) - 1)>>
                 \o Split(SubSeq(str, MinOf(at) + 3, Len(str)))

\* The elements of a set of positions, in ascending order.
Ascending(S) ==
    [n \in 1..Cardinality(S) |->
        CHOOSE i \in S : Cardinality({j \in S : j < i}) = n - 1]

\* The key streams.forEach computes for each stream, for the three Maps.
NameKeys(rows) == [i \in 1..Len(rows) |-> NameKey(rows[i])]
EndpointKeys(rows) == [i \in 1..Len(rows) |-> EndpointKey(rows[i])]
ExactKeys(rows) == [i \in 1..Len(rows) |-> ExactKey(rows[i])]

\* Array.from(map.entries()) of the Map filled by streams.forEach: the keys in
\* the order of their first stream, each with its streams in table order.
Entries(keys, rows) ==
    LET first == Ascending({i \in 1..Len(rows) :
                               \A j \in 1..(i - 1) : keys[j] # keys[i]})
        with(k) == Ascending({i \in 1..Len(rows) : keys[i] = k})
    IN  [n \in 1..Len(first) |->
            [key |-> keys[first[n]],
             streams |-> [m \in 1..Len(with(keys[first[n]])) |->
                             rows[with(keys[first[n]])[m]]]]]

\* .filter(([_, streams]) => streams.length > 1)
Shared(entries) == SelectSeq(entries, LAMBDA e : Len(e.streams) > 1)

\* streams.map(s => ({ id: s.id, name: s.name, endpoint: s.endpoint }))
Members(rows) ==
    [i \in 1..Len(rows) |->
        [id |-> rows[i].id, name |-> rows[i].name, endpoint |-> rows[i].endpoint]]

\* The three .map(...) of the shared entries. A group of the report is
\* [name, endpoint, count, streams]; a field the code does not set is NoText.
NameDuplicates(rows) ==
    LET es == Shared(Entries(NameKeys(rows), rows))
    IN  [i \in 1..Len(es) |->
            [name |-> es[i].key, endpoint |-> NoText,
             count |-> Len(es[i].streams), streams |-> Members(es[i].streams)]]
EndpointDuplicates(rows) ==
    LET es == Shared(Entries(EndpointKeys(rows), rows))
    IN  [i \in 1..Len(es) |->
            [name |-> NoText, endpoint |-> es[i].key,
             count |-> Len(es[i].streams), streams |-> Members(es[i].streams)]]
ExactDuplicates(rows) ==
    LET es == Shared(Entries(ExactKeys(rows), rows))
    IN  [i \in 1..Len(es) |->
            [name |-> Split(es[i].key)[1], endpoint |-> Split(es[i].key)[2],
             count |-> Len(es[i].streams), streams |-> Members(es[i].streams)]]

\* The response bodies.
DupError(msg) ==
    [error |-> msg, message |-> Null, total |-> 0,
     unique_by_name |-> 0, unique_by_endpoint |-> 0, unique_exact |-> 0,
     duplicates_by_name |-> <<>>, duplicates_by_endpoint |-> <<>>,
     duplicates_exact |-> <<>>, has_duplicates |-> FALSE]
DupNone == [DupError(Null) EXCEPT !.message = "No streams found"]
DupReport(rows) ==
    [error |-> Null, message |-> Null, total |-> Len(rows),
     unique_by_name |-> Len(Entries(NameKeys(rows), rows)),
     unique_by_endpoint |-> Len(Entries(EndpointKeys(rows), rows)),
     unique_exact |-> Len(Entries(ExactKeys(rows), rows)),
     duplicates_by_name |-> NameDuplicates(rows),
     duplicates_by_endpoint |-> EndpointDuplicates(rows),
     duplicates_exact |-> ExactDuplicates(rows),
     has_duplicates |-> \/ Len(NameDuplicates(rows)) > 0
                        \/ Len(EndpointDuplicates(rows)) > 0
                        \/ Len(ExactDuplicates(rows)) > 0]

DupReply(code, body) ==
    /\ dPc' = "done"
    /\ dStatus' = code
    /\ dBody' = body

\* No request has arrived.
DupIdle ==
    /\ dPc = "idle"
    /\ dStatus = 0
    /\ dBody = DupError(Null)

\* The table holds up to MaxStreams streams, in the order of their names.
DupInit ==
    /\ dCreds \in BOOLEAN
    /\ \E len \in 0..MaxStreams :
        \E f \in [1..len -> (1..Len(DupNames)) \X DupEndpoints] :
            /\ \A i \in 1..(len - 1) : f[i][1] <= f[i + 1][1]
            /\ dRows = [i \in 1..len |-> DupRow(i, f[i][1], f[i][2])]
    /\ DupIdle

\* The route at rest, for the behaviours of the other components.
DupRest ==
    /\ dCreds = TRUE
    /\ dRows = <<>>
    /\ DupIdle

\* GET up to its await: the credentials check, the select.
DupStart ==
    /\ dPc \in {"idle", "done"}
    /\ IF ~dCreds
         THEN DupReply(500, DupError("Missing credentials"))
         ELSE /\ dPc' = "await"
              /\ dStatus' = 0
              /\ dBody' = DupError(Null)
    /\ UNCHANGED <<dCreds, dRows>>
    /\ UNCHANGED dupOthers

\* The select returns the rows, or no error and no data: the report.
DupData ==
    /\ dPc = "await"
    /\ \E data \in {dRows, <<>>} :
        IF Len(data) = 0
          THEN DupReply(200, DupNone)
          ELSE DupReply(200, DupReport(data))
    /\ UNCHANGED <<dCreds, dRows>>
    /\ UNCHANGED dupOthers

\* The select returns an error, or throws.
DupFails ==
    /\ dPc = "await"
    /\ \E msg \in {"error.message", "Internal server error"} :
        DupReply(500, DupError(msg))
    /\ UNCHANGED <<dCreds, dRows>>
    /\ UNCHANGED dupOthers

DupNext == DupStart \/ DupData \/ DupFails

\* ==================================================================
\* Stream preview: preview() of HomeClient.tsx
\* ==================================================================
\* setTimeout(..., 5000) for the connection status, setTimeout(..., 3000) for
\* the message window.
StatusTimeout == 5000
MessageWindow == 3000

\* The instants at which a callback of the preview can run.
PreviewElapsed ==
    {0, 1, MessageWindow, MessageWindow + MaxLate, StatusTimeout, StatusTimeout + MaxLate}

\* event.data.toString() of the first message a stream sends.
MessageData == {"msg", ""}

\* No preview has been asked for.
PreviewIdle ==
    /\ previewing = FALSE
    /\ previewMessage = Null
    /\ previewVisible = FALSE
    /\ previewWs = FALSE
    /\ vWs = "none"
    /\ vOpened = FALSE
    /\ vDue = "none"
    /\ messageReceived = FALSE
    /\ timeoutId = "none"
    /\ messageTimeoutId = "none"
    /\ closeTimer = "none"
    /\ vNow = 0

PreviewInit == PreviewIdle

\* The page at rest, for the behaviours of the other components.
PreviewRest == PreviewIdle

\* cleanup() of preview: both timers cleared, the socket closed, its entry
\* of previewWs deleted.
Cleanup ==
    /\ timeoutId' = ClearTimeout(timeoutId)
    /\ messageTimeoutId' = ClearTimeout(messageTimeoutId)
    /\ vWs' = Close(vWs)
    /\ previewWs' = FALSE

\* A click on Preview: the panel is hidden, or shown again with the message
\* it has, or a new preview starts (here: once the previous one is over);
\* new WebSocket() throws on an endpoint that is no ws: URL.
PreviewClick ==
    /\ IF previewVisible
         THEN /\ previewVisible' = FALSE
              /\ UNCHANGED <<previewing, previewMessage, previewWs, vWs, vOpened, vDue,
                             messageReceived, timeoutId, messageTimeoutId, closeTimer,
                             vNow>>
         ELSE IF previewMessage \notin {Null, ""}
           THEN /\ previewVisible' = TRUE
                /\ UNCHANGED <<previewing, previewMessage, previewWs, vWs, vOpened,
                               vDue, messageReceived, timeoutId, messageTimeoutId,
                               closeTimer, vNow>>
           ELSE /\ ~previewing
                /\ closeTimer # "pending"
                /\ previewVisible' = TRUE
                /\ vOpened' = FALSE
                /\ vDue' = "none"
                /\ messageReceived' = FALSE
                /\ closeTimer' = "none"
                /\ vNow' = 0
                /\ \E throws \in BOOLEAN :
                    IF throws
                      THEN /\ previewMessage' = "Failed to connect"
                           /\ previewing' = FALSE
                           /\ vWs' = "none"
                           /\ timeoutId' = "none"
                           /\ messageTimeoutId' = "none"
                           /\ previewWs' = FALSE
                      ELSE /\ previewing' = TRUE
                           /\ vWs' = "CONNECTING"
                           /\ timeoutId' = "pending"
                           /\ messageTimeoutId' = "pending"
                           /\ previewWs' = TRUE
                           /\ UNCHANGED previewMessage
    /\ UNCHANGED previewOthers

\* The 5-second timer fires.
PreviewOnTimeout ==
    /\ timeoutId = "pending"
    /\ vDue # "due"
    /\ vNow >= StatusTimeout
    /\ IF ~messageReceived
         THEN /\ previewMessage' = "Connected, waiting for subscription"
              /\ previewing' = FALSE
              /\ timeoutId' = "fired"
              /\ messageTimeoutId' = ClearTimeout(messageTimeoutId)
              /\ vWs' = Close(vWs)
              /\ previewWs' = FALSE
         ELSE /\ timeoutId' = "fired"
              /\ UNCHANGED <<previewMessage, previewing, messageTimeoutId, vWs,
                             previewWs>>
    /\ UNCHANGED <<previewVisible, vOpened, vDue, messageReceived, closeTimer, vNow>>
    /\ UNCHANGED previewOthers

\* The 3-second timer fires.
PreviewOnWindow ==
    /\ messageTimeoutId = "pending"
    /\ vDue # "due"
    /\ vNow >= MessageWindow
    /\ IF messageReceived
         THEN /\ timeoutId' = ClearTimeout(timeoutId)
              /\ messageTimeoutId' = "fired"
              /\ vWs' = Close(vWs)
              /\ previewWs' = FALSE
         ELSE /\ messageTimeoutId' = "fired"
              /\ UNCHANGED <<timeoutId, vWs, previewWs>>
    /\ UNCHANGED <<previewing, previewMessage, previewVisible, vOpened, vDue,
                   messageReceived, closeTimer, vNow>>
    /\ UNCHANGED previewOthers

\* The open event: ws.onopen does nothing.
PreviewOnOpen ==
    /\ vWs = "CONNECTING"
    /\ vWs' = "OPEN"
    /\ vOpened' = TRUE
    /\ UNCHANGED <<previewing, previewMessage, previewVisible, previewWs, vDue,
                   messageReceived, timeoutId, messageTimeoutId, closeTimer, vNow>>
    /\ UNCHANGED previewOthers

\* A message event of the open socket, ws.onmessage.
PreviewOnMessage ==
    /\ vWs = "OPEN"
    /\ vDue = "none"
    /\ IF ~messageReceived
         THEN /\ messageReceived' = TRUE
              /\ \E data \in MessageData : previewMessage' = data
              /\ previewing' = FALSE
              /\ timeoutId' = ClearTimeout(timeoutId)
              /\ closeTimer' = "pending"
         ELSE UNCHANGED <<messageReceived, previewMessage, previewing, timeoutId,
                          closeTimer>>
    /\ UNCHANGED <<previewVisible, previewWs, vWs, vOpened, vDue, messageTimeoutId, vNow>>
    /\ UNCHANGED previewOthers

\* The 100 ms timer set by the first message fires: cleanup().
PreviewOnDelay ==
    /\ closeTimer = "pending"
    /\ vDue # "due"
    /\ closeTimer' = "fired"
    /\ Cleanup
    /\ UNCHANGED <<previewing, previewMessage, previewVisible, vOpened, vDue,
                   messageReceived, vNow>>
    /\ UNCHANGED previewOthers

\* The browser fails the connection: the error event, ws.onerror.
PreviewOnError ==
    /\ vWs \in {"CONNECTING", "OPEN", "CLOSING"}
    /\ vDue = "none"
    /\ vDue' = "due"
    /\ previewMessage' = "Connection error"
    /\ previewing' = FALSE
    /\ timeoutId' = ClearTimeout(timeoutId)
    /\ messageTimeoutId' = ClearTimeout(messageTimeoutId)
    /\ vWs' = Close("CLOSED")
    /\ previewWs' = FALSE
    /\ UNCHANGED <<previewVisible, vOpened, messageReceived, closeTimer, vNow>>
    /\ UNCHANGED previewOthers

\* The close event, after an error or when an established connection ends
\* (the remote end closes it, or the closing handshake completes): ws.onclose.
PreviewOnClose ==
    /\ \/ vDue = "due"
       \/ vWs \in {"OPEN", "CLOSING"} /\ vOpened /\ vDue = "none"
    /\ vWs' = "CLOSED"
    /\ vDue' = "done"
    /\ timeoutId' = ClearTimeout(timeoutId)
    /\ messageTimeoutId' = ClearTimeout(messageTimeoutId)
    /\ UNCHANGED <<previewing, previewMessage, previewVisible, previewWs, vOpened,
                   messageReceived, closeTimer, vNow>>
    /\ UNCHANGED previewOthers

\* Time passes while a timer of the preview is pending.
PreviewTick ==
    /\ vDue # "due"
    /\ timeoutId = "pending" \/ messageTimeoutId = "pending"
    /\ \E d \in PreviewElapsed :
        /\ d > vNow
        /\ \A e \in PreviewElapsed : e > vNow => e >= d
        /\ vNow' = d
    /\ UNCHANGED <<previewing, previewMessage, previewVisible, previewWs, vWs, vOpened,
                   vDue, messageReceived, timeoutId, messageTimeoutId, closeTimer>>
    /\ UNCHANGED previewOthers

PreviewNext ==
    \/ PreviewClick \/ PreviewOnTimeout \/ PreviewOnWindow \/ PreviewOnOpen
    \/ PreviewOnMessage \/ PreviewOnDelay \/ PreviewOnError \/ PreviewOnClose
    \/ PreviewTick

\* ==================================================================
\* Stream registration: POST /api/add-stream
\* ==================================================================
\* The values of name, endpoint and description in a request: absent, empty,
\* blank, plain, padded with blanks.
FieldTexts == {NoText, <<>>, <<" ">>, <<"a">>, <<" ", "a", " ">>}

\* The values of tags: absent, empty, one tag, two tags, separators only,
\* padded tags around an empty one.
TagTexts ==
    {NoText, <<>>, <<"a">>, <<"a", ",", " ", "b">>, <<",", " ">>,
     <<" ", "b", " ", ",", ",", "a">>}

\* !text of JavaScript for a field that is a string or absent; Missing_absent
\* is the test that lets the empty string pass.
Missing_absent(text) == text = NoText
Missing(text) == text = NoText \/ text = <<>>

\* String.prototype.split(',')
RECURSIVE SplitComma(_)
SplitComma(str) ==
    LET at == {i \in 1..Len(str) : str[i] = ","}
    IN  IF at = {} THEN <<str>>
        ELSE <<SubSeq(str, 1, MinOf(at) - 1)>>
                 \o SplitComma(SubSeq(str, MinOf(at) + 1, Len(str)))

\* tags ? tags.split(',').map(tag => tag.trim()).filter(tag => tag.length > 0) : []
TagsArray(tags) ==
    IF Missing(tags) THEN <<>>
    ELSE SelectSeq([i \in 1..Len(SplitComma(tags)) |-> Trim(SplitComma(tags)[i])],
                   LAMBDA tag : Len(tag) > 0)

\* The object handed to insert.
NewStream(body) ==
    [name |-> Trim(body.name),
     endpoint |-> Trim(body.endpoint),
     description |-> Trim(body.description),
     tags |-> IF Len(TagsArray(body.tags)) > 0 THEN Tags(TagsArray(body.tags)) ELSE NoTags,
     clicks_node |-> 0,
     clicks_python |-> 0]

NoBody == [name |-> NoText, endpoint |-> NoText, description |-> NoText, tags |-> NoText]
NoStream == [NewStream(NoBody) EXCEPT !.name = NoText, !.endpoint = NoText,
                                      !.description = NoText]

AddReply(code, ok) ==
    /\ regPc' = "done"
    /\ regStatus' = code
    /\ regSuccess' = ok

\* No request has arrived.
AddIdle ==
    /\ regParsed = FALSE
    /\ regBody = NoBody
    /\ regRecord = NoStream
    /\ regTable = <<>>
    /\ regPc = "idle"
    /\ regStatus = 0
    /\ regSuccess = FALSE

AddInit ==
    /\ regCreds \in BOOLEAN
    /\ AddIdle

\* The route at rest, for the behaviours of the other components.
AddRest ==
    /\ regCreds = TRUE
    /\ AddIdle

\* POST up to the await of the insert: the body is parsed (request.json()
\* throws on a body that is no JSON), validated, the credentials are
\* checked, the record is built.
AddStart ==
    /\ regPc = "idle"
    /\ \E parsed \in BOOLEAN :
        \E body \in [name : FieldTexts, endpoint : FieldTexts,
                     description : FieldTexts, tags : TagTexts] :
            /\ parsed \/ body = NoBody
            /\ regParsed' = parsed
            /\ regBody' = body
            /\ IF ~parsed
                 THEN AddReply(500, FALSE) /\ UNCHANGED regRecord
                 ELSE IF Missing(body.name) \/ Missing(body.endpoint)
                           \/ Missing(body.description)
                   THEN AddReply(400, FALSE) /\ UNCHANGED regRecord
                   ELSE IF ~regCreds
                     THEN AddReply(500, FALSE) /\ UNCHANGED regRecord
                     ELSE /\ regRecord' = NewStream(body)
                          /\ regPc' = "await"
                          /\ UNCHANGED <<regStatus, regSuccess>>
    /\ UNCHANGED <<regCreds, regTable>>
    /\ UNCHANGED addOthers

\* .insert({...}).select().single() stores the record and returns it.
AddInsert ==
    /\ regPc = "await"
    /\ regTable' = Append(regTable, regRecord)
    /\ AddReply(200, TRUE)
    /\ UNCHANGED <<regCreds, regParsed, regBody, regRecord>>
    /\ UNCHANGED addOthers

\* The store refuses the insert with an error, or the call throws.
AddFails ==
    /\ regPc = "await"
    /\ AddReply(500, FALSE)
    /\ UNCHANGED <<regCreds, regParsed, regBody, regRecord, regTable>>
    /\ UNCHANGED addOthers

AddNext == AddStart \/ AddInsert \/ AddFails

\* ==================================================================
\* Directory query: a search() that starts while another awaits its select
\* ==================================================================
\* No earlier search is pending.
RaceIdle ==
    /\ earlierPending = FALSE
    /\ earlierQ = <<>>

\* The search box over a short table whose first row may match.
RaceInit ==
    /\ catLen \in {0, 1, ResultLimit + 1}
    /\ catMarks \in SUBSET ({1} \cap 1..catLen)
    /\ catHit = "byName"
    /\ catFill \in {"plain", "byDesc"}
    /\ SearchIdle
    /\ RaceIdle

\* For the behaviours of the other components.
RaceRest == RaceIdle

\* What search(t) shows when its select returns data.
Found(t) ==
    IF Trim(t) = <<>> THEN EmptyTermData
    ELSE IF Len(Select(CandidateLimit)) = 0 THEN <<>>
    ELSE Filtered(Select(CandidateLimit), ToLowerCase(Trim(t)))

\* The debounce timer fires while the select of the previous search() is
\* pending: search(query) up to its await.
SearchOverlap ==
    /\ sPc = "await"
    /\ ~earlierPending
    /\ earlierPending' = TRUE
    /\ earlierQ' = q
    /\ \E t \in Terms :
        /\ q' = t
        /\ branch' = IF Trim(t) = <<>> THEN "empty" ELSE "filter"
    /\ loading' = TRUE
    /\ UNCHANGED <<catLen, catMarks, catHit, catFill, sPc, results, outcome, raised>>
    /\ UNCHANGED raceOthers

\* The select of the earlier search() returns data: its continuation.
SearchEarlierData ==
    /\ earlierPending
    /\ earlierPending' = FALSE
    /\ results' = Found(earlierQ)
    /\ loading' = FALSE
    /\ UNCHANGED <<catLen, catMarks, catHit, catFill, sPc, q, branch, outcome, raised,
                   earlierQ>>
    /\ UNCHANGED raceOthers

\* The select of the earlier search() ends in a failure.
SearchEarlierFails ==
    /\ earlierPending
    /\ earlierPending' = FALSE
    /\ results' = Failed(results).results
    /\ loading' = Failed(results).loading
    /\ UNCHANGED <<catLen, catMarks, catHit, catFill, sPc, q, branch, outcome, raised,
                   earlierQ>>
    /\ UNCHANGED raceOthers

RaceNext ==
    \/ SearchStart \/ SearchData \/ SearchError \/ SearchThrow
    \/ SearchOverlap \/ SearchEarlierData \/ SearchEarlierFails

vars == <<clickVars, searchVars, adminVars, pingVars, statsVars, probeVars, dupVars, previewVars, addVars, raceVars>>

InitClick ==
    /\ active = NumCalls
    /\ ClickInit
    /\ SearchRest /\ AdminRest /\ PingRest
    /\ StatsRest /\ ProbeRest /\ DupRest /\ PreviewRest /\ AddRest /\ RaceRest
SpecClick == InitClick /\ [][ClickNext]_vars

\* The counter route with one more request.
InitClickMany ==
    /\ active = NumCalls + 1
    /\ ClickInit
    /\ SearchRest /\ AdminRest /\ PingRest
    /\ StatsRest /\ ProbeRest /\ DupRest /\ PreviewRest /\ AddRest /\ RaceRest
SpecClickMany == InitClickMany /\ [][ClickNext]_vars

InitSearch ==
    /\ SearchInit
    /\ ClickRest /\ AdminRest /\ PingRest
    /\ StatsRest /\ ProbeRest /\ DupRest /\ PreviewRest /\ AddRest /\ RaceRest
SpecSearch == InitSearch /\ [][SearchNext]_vars

InitAdmin ==
    /\ AdminInit
    /\ ClickRest /\ SearchRest /\ PingRest
    /\ StatsRest /\ ProbeRest /\ DupRest /\ PreviewRest /\ AddRest /\ RaceRest
SpecAdmin == InitAdmin /\ [][AdminNext]_vars

InitPing ==
    /\ PingInit
    /\ ClickRest /\ SearchRest /\ AdminRest
    /\ StatsRest /\ ProbeRest /\ DupRest /\ PreviewRest /\ AddRest /\ RaceRest
SpecPing == InitPing /\ [][PingNext]_vars

InitStats ==
    /\ StatsInit
    /\ ClickRest /\ SearchRest /\ AdminRest
    /\ PingRest /\ ProbeRest /\ DupRest /\ PreviewRest /\ AddRest /\ RaceRest
SpecStats == InitStats /\ [][StatsNext]_vars

InitProbe ==
    /\ ProbeInit
    /\ ClickRest /\ SearchRest /\ AdminRest
    /\ PingRest /\ StatsRest /\ DupRest /\ PreviewRest /\ AddRest /\ RaceRest
SpecProbe == InitProbe /\ [][ProbeNext]_vars

\* The pages with a clock that advances, timers that fire and promise
\* continuations that run.
SpecProbeFair ==
    /\ SpecProbe
    /\ WF_vars(ProbeTick)
    /\ WF_vars(TestOnTimeout)
    /\ WF_vars(TestAllResume)
    /\ WF_vars(TestAllDelay)

InitDup ==
    /\ DupInit
    /\ ClickRest /\ SearchRest /\ AdminRest
    /\ PingRest /\ StatsRest /\ ProbeRest /\ PreviewRest /\ AddRest /\ RaceRest
SpecDup == InitDup /\ [][DupNext]_vars

InitPreview ==
    /\ PreviewInit
    /\ ClickRest /\ SearchRest /\ AdminRest
    /\ PingRest /\ StatsRest /\ ProbeRest /\ DupRest /\ AddRest /\ RaceRest
SpecPreview == InitPreview /\ [][PreviewNext]_vars

\* The preview with a clock that advances and timers that fire.
SpecPreviewFair ==
    /\ SpecPreview
    /\ WF_vars(PreviewTick)
    /\ WF_vars(PreviewOnTimeout)
    /\ WF_vars(PreviewOnWindow)
    /\ WF_vars(PreviewOnDelay)

InitAdd ==
    /\ AddInit
    /\ ClickRest /\ SearchRest /\ AdminRest /\ PingRest /\ StatsRest /\ ProbeRest /\ DupRest /\ PreviewRest /\ RaceRest
SpecAdd == InitAdd /\ [][AddNext]_vars

\* The search box with searches that overlap.
InitRace ==
    /\ RaceInit
    /\ ClickRest /\ AdminRest /\ PingRest /\ StatsRest
    /\ ProbeRest /\ DupRest /\ PreviewRest /\ AddRest
SpecRace == InitRace /\ [][RaceNext]_vars

\* ------------------------------------------------------------ click claims

\* The calls that reached the update of counter col of stream id.
Writers(id, col) ==
    {p \in Calls : /\ newCount[p] > 0
                   /\ req[p].id = id
                   /\ ColumnOf(req[p].type) = col}

C2_LostUpdate ==
    \A id \in StreamIds, col \in Columns :
        LET W == Writers(id, col)
        IN  ( /\ Cardinality(W) >= 2
              /\ \A p \in W : pc[p] = "done" /\ success[p] /\ applied[p]
              /\ \E p, r \in W : p # r /\ stream[p][col] = stream[r][col] )
            => store[id][col] < store0[id][col] + Cardinality(W)

C2_Witness ==
    \E p, r \in Calls :
        /\ p # r
        /\ Writers("s1", "clicks_node") = {p, r}
        /\ pc[p] = "done" /\ success[p] /\ applied[p]
        /\ pc[r] = "done" /\ success[r] /\ applied[r]
        /\ stream[p]["clicks_node"] = stream[r]["clicks_node"]
        /\ store["s1"]["clicks_node"] = store0["s1"]["clicks_node"] + 1

\* C3 (as claimed): no step lowers a stored counter.
C3_NeverDecreases ==
    [][\A id \in StreamIds, col \in Columns : store'[id][col] >= store[id][col]]_vars

\* C4 (as claimed): a call that reports success has applied a write that
\* changed the stored counter.
C4_SuccessMeansWrite ==
    \A p \in Calls : (pc[p] = "done" /\ success[p]) => (applied[p] /\ changed[p])

\* C5 (as claimed): a call that reports 400, 403, 404 or 500 has not changed
\* the table.
C5_FailureMeansNoWrite ==
    \A p \in Calls :
        (pc[p] = "done" /\ status[p] \in {400, 403, 404, 500}) => ~applied[p]

\* The stored value of the counter call p increments.
Stored(p) == store[req[p].id][ColumnOf(req[p].type)]

\* C15: in the variant with verification, a call whose update returned no
\* error and no row, and whose re-read returned another value than newCount or
\* an error, answers 403 with success false; a call whose update returned an
\* error answers 500; an update never ends in 403 and a returned re-read
\* never in 500.
C15_DeniedIsNotFailed ==
    [][\A p \in Calls :
        /\ (pc[p] = "update" /\ pc'[p] # "update") =>
              /\ status'[p] # 403
              /\ fault' = "error" =>
                    (pc'[p] = "done" /\ status'[p] = 500 /\ ~success'[p])
              /\ pc'[p] = "verify" => (variant = "verified" /\ fault' = "none")
        /\ (pc[p] = "verify" /\ pc'[p] # "verify" /\ fault' # "throw") =>
              /\ pc'[p] = "done"
              /\ status'[p] \in {200, 403}
              /\ (fault' = "error" \/ Stored(p) # newCount[p]) =>
                    (status'[p] = 403 /\ ~success'[p])
      ]_vars

\* One call was denied after the store dropped its write, and then the update
\* of another returned an error.
C15_Witness ==
    /\ variant = "verified"
    /\ \E p, r \in Calls :
        /\ pc[p] = "done" /\ status[p] = 403 /\ ~applied[p]
        /\ Stored(p) # newCount[p]
        /\ pc[r] = "done" /\ status[r] = 500 /\ newCount[r] > 0
        /\ fault = "error"

\* The request of call p lacks id or type, or holds an empty one.
MissingField(p) == req[p].id \in {"", Null} \/ req[p].type \in {"", Null}

\* C16: a call whose request lacks id or type never waits for the store, and
\* has been answered 400 having read no row and written no value.
C16_MissingFieldIs400 ==
    \A p \in Calls :
        (pc[p] # "idle" /\ MissingField(p)) =>
            /\ pc[p] = "done"
            /\ status[p] = 400
            /\ ~success[p]
            /\ stream[p] = NoRow
            /\ newCount[p] = 0
            /\ ~applied[p]

\* A request with an empty type was refused although the store cannot be reached.
C16_Witness ==
    /\ ~credsOk
    /\ \E p \in Calls :
        /\ pc[p] = "done"
        /\ req[p] = [id |-> "s1", type |-> ""]
        /\ status[p] = 400

\* C17 (as claimed): a call is answered 404 only when no stream has the id of
\* its request; a fault of the first read is answered 500.
C17_NotFoundOnlyWhenAbsent ==
    \A p \in Calls :
        (pc[p] = "done" /\ status[p] = 404) => req[p].id \notin StreamIds

\* C18 (as claimed): a call whose request holds an id and a type other than
\* 'node' and 'python' is answered 400 whether or not a stream has the id;
\* apart from that, a store fault may answer 500, or 404 for an existing
\* stream (C17).
C18_UnknownTypeIs400 ==
    \A p \in Calls :
        (/\ pc[p] = "done"
         /\ credsOk
         /\ ~MissingField(p)
         /\ req[p].type \notin {"node", "python"}) =>
            \/ status[p] = 400
            \/ status[p] = 500
            \/ status[p] = 404 /\ req[p].id \in StreamIds

\* The calls that reported success for counter col of stream id.
Succeeded(id, col) == {p \in Writers(id, col) : pc[p] = "done" /\ success[p]}

\* C24 (as claimed): when every call has responded, N >= 2 of them reported
\* success for one counter and no other call wrote it, the stored counter is
\* at least initial + 1 and at most initial + N.
C24_BetweenOneAndN ==
    \A id \in StreamIds, col \in Columns :
        LET S == Succeeded(id, col)
        IN  ( /\ \A p \in Calls : ~InFlight(p)
              /\ Cardinality(S) >= 2
              /\ \A p \in Writers(id, col) \ S : ~applied[p] )
            => /\ store[id][col] >= store0[id][col] + 1
               /\ store[id][col] <= store0[id][col] + Cardinality(S)

\* ----------------------------------------------------------- search claims

\* The term is empty or holds only whitespace.
Blank(t) == \A i \in 1..Len(t) : IsSpace(t[i])

\* t occurs in field, letter case ignored.
ContainsCI(field, t) ==
    \E i \in 1..(Len(field) - Len(t) + 1) :
        \A k \in 1..Len(t) : LowerChar(field[i + k - 1]) = LowerChar(t[k])

\* t occurs, letter case ignored, in the name, the description or a tag of row.
RecordHas(row, t) ==
    \/ ContainsCI(row.name, t)
    \/ ContainsCI(row.description, t)
    \/ /\ row.tags.isArray
       /\ \E k \in 1..Len(row.tags.items) : ContainsCI(row.tags.items[k], t)

\* A search whose select returned data has ended.
Answered == sPc = "done" /\ outcome = "data"

\* C6: for an empty or whitespace-only term the result is the first
\* min(6, |C|) rows of the catalog, in store order.
C6_EmptyTermPrefix ==
    (Answered /\ Blank(q)) =>
        /\ Len(results) = Min(6, catLen)
        /\ \A i \in 1..Len(results) : results[i] = Catalog[i]

C6_Witness ==
    /\ Answered
    /\ q = <<" ">>
    /\ catLen > 6
    /\ Len(results) = 6
    /\ results[6] = Catalog[6]

\* C7 (as claimed): for a non-empty term t every row of the result has t
\* itself, letter case ignored, in its name, description or a tag, and the
\* result has at most 6 rows.
C7_ResultsContainTerm ==
    (Answered /\ q # <<>>) =>
        /\ Len(results) <= 6
        /\ \A i \in 1..Len(results) : RecordHas(results[i], q)

\* C7 (amended): for a term t that is not blank every row of the result has
\* t without its leading and trailing whitespace, letter case ignored, in its
\* name, description or a tag, and the result has at most 6 rows.
C7_ResultsContainTrimmedTerm ==
    (Answered /\ ~Blank(q)) =>
        /\ Len(results) <= 6
        /\ \A i \in 1..Len(results) : RecordHas(results[i], Trim(q))

C7_Witness ==
    /\ Answered
    /\ q = <<"A", " ">>
    /\ Len(results) > 0
    /\ \E i \in 1..Len(results) : ~ContainsCI(results[i].name, <<"a">>)

\* The positions of the 50-row candidate window whose row has the trimmed term.
MatchingInWindow(t) ==
    {i \in 1..Min(50, catLen) : RecordHas(Catalog[i], Trim(t))}

\* C8: for a non-empty term the result is the first 6 (or all, if fewer) of
\* the matching rows among the first 50 rows of the store, in store order.
C8_FirstSixOfWindow ==
    (Answered /\ q # <<>>) =>
        LET M == MatchingInWindow(q)
        IN  /\ Len(results) = Min(6, Cardinality(M))
            /\ \A k \in 1..Len(results) :
                  /\ results[k].id \in M
                  /\ Cardinality({j \in M : j <= results[k].id}) = k
                  /\ results[k] = Catalog[results[k].id]

C8_Witness ==
    /\ Answered
    /\ ~Blank(q)
    /\ catLen > 50
    /\ RecordHas(Catalog[51], Trim(q))
    /\ Len(results) \in 1..5
    /\ \E i \in 7..50 : i \in MatchingInWindow(q)

\* C9: when the select returns an error or throws, for either kind of term,
\* search ends with no results, loading false and no error for its caller.
C9_FailureGivesNoResults ==
    (sPc = "done" /\ outcome \in {"error", "throw"}) =>
        /\ results = <<>>
        /\ loading = FALSE
        /\ ~raised

C9_Witness ==
    /\ sPc = "done"
    /\ outcome = "throw"
    /\ ~Blank(q)
    /\ results = <<>>
    /\ ~loading

\* C29 (as claimed): when no select is pending, the results shown are those
\* of the latest search: what its select gave for its term, or nothing if
\* the select failed.
C29_LatestSearchShown ==
    (sPc = "done" /\ ~earlierPending) =>
        results = IF outcome = "data" THEN Found(q) ELSE <<>>

\* ------------------------------------------------------------ admin claims

\* The request carried a token, and the provider did not resolve it to an
\* identity whose email is an exact member of the allow-list.
NotAnAdmin ==
    /\ ~NoAuth(authHeader)
    /\ resolved.how = "returned"
    /\ \/ resolved.error
       \/ ~resolved.user.present
       \/ resolved.user.email \in {Null, ""}
       \/ \A e \in ALLOWED_ADMIN_EMAILS : resolved.user.email # e

\* C10: such a request is answered 403 Forbidden with no account data.
C10_NonAdminForbidden ==
    (aPc = "done" /\ NotAnAdmin) =>
        /\ aStatus = 403
        /\ aBody = ErrorBody("Forbidden")
        /\ ~elevated

C10_Witness ==
    /\ aPc = "done"
    /\ resolved.user.present
    /\ resolved.user.email = "Admin@dataplug.dev"
    /\ serviceRoleKey
    /\ Len(accounts) > 0
    /\ aStatus = 403

\* The request has reached the code behind the admin check: the service-role
\* client, the account listing, its answer, or the answer that the service-role
\* key is not configured.
PastAdminCheck ==
    \/ elevated
    \/ aPc = "listUsers"
    \/ aStatus = 200
    \/ aBody = ErrorBody("Service role key not configured")

\* The provider resolved the token of this request to an allow-listed email.
ResolvedToAdmin ==
    /\ authHeader \notin {NoHeader, <<>>}
    /\ resolved.how = "returned"
    /\ ~resolved.error
    /\ resolved.user.present
    /\ resolved.user.email \in ALLOWED_ADMIN_EMAILS

\* C11: the code behind the admin check is reached only by a request whose
\* token was resolved to an allow-listed email; a request without an
\* Authorization header is answered 401, one that is not an admin's 403, and
\* neither reaches that code.
C11_ElevatedOnlyAfterAdminCheck ==
    /\ PastAdminCheck => ResolvedToAdmin
    /\ (aPc = "done" /\ authHeader \in {NoHeader, <<>>}) =>
           (aStatus = 401 /\ resolved = Unresolved /\ ~PastAdminCheck)
    /\ (aPc = "done" /\ NotAnAdmin) => (aStatus = 403 /\ ~PastAdminCheck)

\* A stranger's request was refused while the service-role key was missing.
C11_Witness ==
    /\ aPc = "done"
    /\ ~serviceRoleKey
    /\ resolved.user.email = "eve@example.com"
    /\ aStatus = 403
    /\ ~elevated

\* ------------------------------------------------------------- ping claims

\* C12 (as claimed): when the abort timer ended the fetch, the answer has
\* status 200, a timeout error and the latency PingTimeout.
C12_TimeoutSentinel ==
    (gPc = "done" /\ aborted) =>
        /\ gStatus = 200
        /\ gBody.error = "Timeout"
        /\ gBody.latency = PingTimeout

\* C14: a ping of a given endpoint is answered 200 with an integer latency,
\* whatever the fetch did; the error field is absent exactly when the endpoint
\* answered with an OK response.
C14_AlwaysStructured ==
    (gPc = "done" /\ gEndpoint \notin {Null, ""}) =>
        /\ gStatus = 200
        /\ gBody.latency \in Nat
        /\ gBody.latency = gNow - startTime
        /\ gBody.error = Null <=> (gEndpoint = "up" /\ ~aborted)
        /\ gBody.error # Null => gBody.error = "Request failed"

\* The ping of an endpoint that answered 404 some time after the request.
C14_Witness ==
    /\ gPc = "done"
    /\ gEndpoint = "missing"
    /\ gStatus = 200
    /\ gBody.error = "Request failed"
    /\ gBody.latency >= 1

\* ------------------------------------------------------------ stats claims

\* A counter as the list shows it: a missing one counts as 0.
Shown(count) == IF count = NullCount THEN 0 ELSE count

\* C19: the list set from fetched rows holds each fetched row once, with its
\* id and name, with total = clicks_node + clicks_python (a missing counter
\* counting as 0), and with totals that never increase from one entry to the next.
C19_StatsSortedByTotal ==
    tOutcome = "data" =>
        /\ Len(streams) = Len(statRows)
        /\ \A r \in 1..Len(statRows) :
            \E i \in 1..Len(streams) :
                /\ \A j \in 1..Len(streams) : streams[j].id = statRows[r].id <=> j = i
                /\ streams[i].name = statRows[r].name
                /\ streams[i].clicks_node = Shown(statRows[r].clicks_node)
                /\ streams[i].clicks_python = Shown(statRows[r].clicks_python)
                /\ streams[i].total =
                       Shown(statRows[r].clicks_node) + Shown(statRows[r].clicks_python)
        /\ \A i, j \in 1..Len(streams) : i < j => streams[i].total >= streams[j].total

\* A list of three rows, fetched in another order than that of their totals,
\* one with a missing counter.
C19_Witness ==
    /\ tOutcome = "data"
    /\ Len(statRows) = 3
    /\ statRows[1].clicks_node = NullCount
    /\ statRows[1].clicks_python = 1
    /\ Shown(statRows[2].clicks_node) + Shown(statRows[2].clicks_python) = 2
    /\ Shown(statRows[3].clicks_node) + Shown(statRows[3].clicks_python) = 2
    /\ streams[1].id = 2
    /\ streams[3].id = 1

\* ------------------------------------------------------------ probe claims

\* C13 (as claimed): once a probe has reported its result, close() has been
\* called on the socket it opened and its timer is not pending.
C13_CloseRequested ==
    reported =>
        /\ ws # "none" => closeCalled
        /\ timer # "pending"

\* C13 (amended): once a probe has reported its result, the socket it opened
\* is closing or closed and its timer is not pending.
C13_NoSocketOrTimerLeft ==
    reported =>
        /\ ws \notin {"CONNECTING", "OPEN"}
        /\ timer # "pending"

\* A ping reported a failed connection without calling close(): the socket
\* is closed, the timer cancelled.
C13_Witness ==
    /\ probe = "ping"
    /\ reported
    /\ latencies = ErrorLatency
    /\ ~closeCalled
    /\ ws = "CLOSED"
    /\ timer = "cleared"

\* The 3-second timer of the ping fired while its socket was connecting: the
\* timer has fired and called close() on a socket that never opened.
TimedOutConnecting == probe = "ping" /\ timer = "fired" /\ closeCalled /\ ~opened

\* C22 (as claimed): the latency recorded by the timer that fired on a
\* connecting socket is 3000, and no later event of the probe replaces it.
C22_TimeoutLatencyKept ==
    TimedOutConnecting => latencies = ClientPingTimeout

\* C25: every event of testStream's socket or timer leaves the promise
\* resolved; the result is 'works' exactly if the open event came first; and
\* an event or the passing of time after the resolution changes neither the
\* result nor the state of the page.
C25_ResolvesOnce ==
    [][/\ (probe' = "testStream" /\ firstEvent' # "none") => wsResolved'
       /\ (probe' = "testStream" /\ wsResolved') =>
              (result'.status = "works" <=> firstEvent' = "open")
       /\ (probe = "testStream" /\ wsResolved /\ loop' = loop) =>
              /\ wsResolved'
              /\ result' = result
              /\ <<testing, completed, testResults>>' =
                     <<testing, completed, testResults>>]_vars

\* The socket opened first and its close event arrived after the resolution.
C25_Witness ==
    /\ probe = "testStream"
    /\ firstEvent = "open"
    /\ wsDue = "done"
    /\ result.status = "works"

\* The results of the streams tested so far: stream k at place k, all of them
\* 'works' or 'broken' except the one under test.
Settled(r) == r.status \in {"works", "broken"}
InListOrder ==
    /\ \A k \in 1..Len(testResults) : testResults[k].stream = k
    /\ \A k \in 1..(Len(testResults) - 1) : Settled(testResults[k])

\* The state of a Test-All run: during it the streams up to the one under
\* test have a result, in list order, and completed counts the settled ones;
\* after it every stream has a settled result and completed is their number.
RunInv ==
    /\ completed \in 0..nStreams
    /\ InListOrder
    /\ loop = "test" =>
          /\ testing
          /\ Len(testResults) \in 1..nStreams
          /\ testResults[Len(testResults)].status = "testing"
          /\ completed = Len(testResults) - 1
    /\ loop = "delay" =>
          /\ testing
          /\ Len(testResults) \in 1..nStreams
          /\ Settled(testResults[Len(testResults)])
          /\ completed = Len(testResults)
    /\ loop = "idle" =>
          /\ ~testing
          /\ testResults # <<>> =>
                /\ Len(testResults) = nStreams
                /\ Settled(testResults[nStreams])
                /\ completed = nStreams

\* C26: a Test-All run tests the streams one at a time in list order, never
\* lowers completed nor raises it above the number of streams, and ends:
\* testing is false again, with one settled result per stream.
C26_RunTerminates ==
    /\ []RunInv
    /\ [][(testing /\ testing') => completed' >= completed]_vars
    /\ testing ~> (~testing /\ completed = nStreams /\ Len(testResults) = nStreams)

\* A run over MaxStreams streams has ended with both kinds of result.
C26_Witness ==
    /\ nStreams = MaxStreams
    /\ ~testing
    /\ loop = "idle"
    /\ completed = MaxStreams
    /\ \E i, k \in 1..MaxStreams :
        testResults[i].status = "works" /\ testResults[k].status = "broken"

\* C28 (as claimed): while the ping of s1 is in flight, the marker is s1.
C28_MarkerWhileInFlight ==
    (probe = "ping" /\ ws # "none" /\ ~reported) => pinging = "s1"

\* -------------------------------------------------------- duplicate claims

\* The groupings of the report, the key a grouping gives a stream, and the
\* key and the groups the report holds for it.
Groupings == {"name", "endpoint", "both"}
KeyIn(g, row) ==
    CASE g = "name" -> <<Normalized(row.name)>>
      [] g = "endpoint" -> <<Normalized(row.endpoint)>>
      [] OTHER -> <<Normalized(row.name), Normalized(row.endpoint)>>
GroupKey(g, group) ==
    CASE g = "name" -> <<group.name>>
      [] g = "endpoint" -> <<group.endpoint>>
      [] OTHER -> <<group.name, group.endpoint>>
GroupsOf(g) ==
    CASE g = "name" -> dBody.duplicates_by_name
      [] g = "endpoint" -> dBody.duplicates_by_endpoint
      [] OTHER -> dBody.duplicates_exact
Sharing(g, key) == {i \in 1..Len(dRows) : KeyIn(g, dRows[i]) = key}
SharedKeys(g) ==
    {KeyIn(g, dRows[i]) : i \in {j \in 1..Len(dRows) :
                                    Cardinality(Sharing(g, KeyIn(g, dRows[j]))) > 1}}

\* C20 (as claimed): the report of a non-empty table lists, for each
\* grouping, every key that more than one row has, once, with the number
\* of those streams as count and those streams as members; has_duplicates
\* tells whether any grouping has such a key.
C20_ReportListsSharedKeys ==
    (dPc = "done" /\ dStatus = 200 /\ Len(dRows) > 0 /\ dBody.message = Null) =>
        /\ \A g \in Groupings :
            LET groups == GroupsOf(g)
            IN  /\ {GroupKey(g, groups[i]) : i \in 1..Len(groups)} = SharedKeys(g)
                /\ Len(groups) = Cardinality(SharedKeys(g))
                /\ \A i \in 1..Len(groups) :
                    /\ groups[i].count = Cardinality(Sharing(g, GroupKey(g, groups[i])))
                    /\ Len(groups[i].streams) = groups[i].count
                    /\ {groups[i].streams[k].id : k \in 1..Len(groups[i].streams)}
                         = {dRows[j].id : j \in Sharing(g, GroupKey(g, groups[i]))}
        /\ dBody.has_duplicates <=> \E g \in Groupings : SharedKeys(g) # {}

\* C23 (as claimed): the streams of an exact-duplicate group all have the
\* normalized name and the normalized endpoint the group reports, so two
\* streams of one group agree in both.
C23_ExactGroupsAgree ==
    (dPc = "done" /\ dStatus = 200 /\ Len(dRows) > 0 /\ dBody.message = Null) =>
        \A i \in 1..Len(dBody.duplicates_exact) :
            LET group == dBody.duplicates_exact[i]
            IN  \A k \in 1..Len(group.streams) :
                    /\ Normalized(group.streams[k].name) = group.name
                    /\ Normalized(group.streams[k].endpoint) = group.endpoint

\* ---------------------------------------------------------- preview claims

\* C27 (as claimed): a preview that has started ends: previewing is false
\* again and a message is stored for the stream.
C27_PreviewEnds == previewing ~> (~previewing /\ previewMessage # Null)

\* ------------------------------------------------------- add-stream claims

\* A field of the request is absent or the empty string.
Lacking(text) == text \in {NoText, <<>>}
Invalid(body) ==
    Lacking(body.name) \/ Lacking(body.endpoint) \/ Lacking(body.description)
ZeroClicks(rec) == rec.clicks_node = 0 /\ rec.clicks_python = 0

\* C21 (as claimed): a parsed request that lacks name, endpoint or description is
\* answered 400 and inserts nothing; any other request inserts exactly one
\* record, with both counters 0.
C21_InsertsExactlyOne ==
    (regPc = "done" /\ regParsed) =>
        IF Invalid(regBody)
          THEN regStatus = 400 /\ regTable = <<>>
          ELSE Len(regTable) = 1 /\ ZeroClicks(regTable[1])

\* C21 (amended): a parsed request that lacks name, endpoint or description
\* is answered 400 and inserts nothing; any other request is answered 200
\* after inserting exactly one record, with both counters 0, or is answered
\* 500 and inserts nothing.
C21_InsertsOneOrFails ==
    /\ \A i \in 1..Len(regTable) : ZeroClicks(regTable[i])
    /\ regPc # "done" => regTable = <<>>
    /\ regPc = "done" =>
          /\ (regParsed /\ Invalid(regBody)) => (regStatus = 400 /\ regTable = <<>>)
          /\ (~regParsed \/ ~Invalid(regBody)) => regStatus \in {200, 500}
          /\ regStatus = 200 <=> Len(regTable) = 1
          /\ regStatus # 200 => regTable = <<>>
          /\ regSuccess <=> regStatus = 200

\* A request with every field and two tags was inserted.
C21_Witness ==
    /\ regPc = "done"
    /\ regStatus = 200
    /\ regBody.name = <<"a">>
    /\ Len(regTable) = 1
    /\ regTable[1].tags = Tags(<< <<"a">>, <<"b">> >>)
    /\ ZeroClicks(regTable[1])

\* C30 (as claimed): every inserted record has a non-empty name, endpoint
\* and description, and tags that are null or a non-empty list of non-empty
\* trimmed strings.
C30_StoredFieldsNonEmpty ==
    \A i \in 1..Len(regTable) :
        /\ regTable[i].name # <<>>
        /\ regTable[i].endpoint # <<>>
        /\ regTable[i].description # <<>>
        /\ \/ regTable[i].tags = NoTags
           \/ /\ regTable[i].tags.isArray
              /\ Len(regTable[i].tags.items) > 0
              /\ \A k \in 1..Len(regTable[i].tags.items) :
                    /\ regTable[i].tags.items[k] # <<>>
                    /\ Trim(regTable[i].tags.items[k]) = regTable[i].tags.items[k]

====
